---------------------------- MODULE Spec2Model ----------------------------
(***************************************************************************)
(* A model of the audio-stitching application:                             *)
(*   - OpfsStorage   (src/src/utils/storage.ts): the storage engine over   *)
(*     the origin-private file system, in the worker and window contexts;  *)
(*   - useOpfsDirectories (src/unnamed/part_003): the catalog hook;        *)
(*   - StitchAudio   (src/unnamed/part_001): the playback scheduler.       *)
(* Every async function is a process whose steps are the code between two  *)
(* awaits; the platform calls (file system handles, AudioContext) are      *)
(* atomic operators on the modelled platform state.                        *)
(***************************************************************************)
EXTENDS Integers, Sequences, FiniteSets, TLC

VARIABLES
  \* ---- platform the storage engine runs on
  envContext,     \* "worker" | "window" | "unknown": the real execution context
  envHasOpfs,     \* navigator.storage.getDirectory exists
  envGetDirOk,    \* navigator.storage.getDirectory() resolves (else rejects)
  fs,             \* the origin-private file system: path -> entry
  locks,          \* locks held on files: set of [path, mode, owner]
  \* ---- OpfsStorage static fields
  rootDir,        \* 0 = null, else the handle returned by getDirectory
  context,        \* OpfsStorage.context
  initPromise,    \* "null" | "pending" | "fulfilled" | "rejected"
  \* ---- OpfsStorage calls in flight
  calls,          \* call slot -> the call's frame
  events,         \* the change events dispatched on window, in order
  \* ---- history
  getDirCalls,    \* number of invocations of navigator.storage.getDirectory
  lastSaved,      \* file path -> the bytes of the payload of the last completed
                  \* save there, and the length of what it replaced
  nCalls,         \* number of calls started so far
  \* ---- useOpfsDirectories (one instance of the hook) and its callers
  folders,        \* useState<AudioMetadata[]>: the catalog
  isLoading,      \* useState(true)
  error,          \* useState<Error | null>: "null" or the error's name
  loads,          \* loadFolders invocations in flight
  upload,         \* AddNew.handleFileUpload in flight (isUploading)
  now,            \* Date.now()
  nChanges,       \* uploads and deletions started so far
  \* ---- StitchAudio and the platform audio engine
  ctxs,           \* the AudioContexts created so far, in order of creation
  audioCtxRef,    \* audioCtxRef.current: 0 = null, else an index of ctxs
  gainNodeRef,    \* gainNodeRef.current: the GainNode's context (0 = null), gain
  animationRef,   \* animationRef.current: "null", "live" (a pending frame
                  \* request) or "dead" (the id of a request that has run)
  rafPending,     \* requestAnimationFrame callbacks pending
  timer,          \* playbackTimerRef: duration, startTime, volume, filesLen
  isPlaying,      \* useState(false)
  currTime,       \* useState(0)
  duration,       \* useState(0)
  isStitching,    \* useState(false)
  sources,        \* the AudioBufferSourceNodes started, in order
  tasks,          \* async handlers of StitchAudio in flight
  nClicks         \* user and catalog actions so far

storageVars == <<envContext, envHasOpfs, envGetDirOk, fs, locks, rootDir, context,
                 initPromise, calls, events, getDirCalls, lastSaved, nCalls>>

catalogVars == <<folders, isLoading, error, loads, upload, now, nChanges>>

playerVars == <<ctxs, audioCtxRef, gainNodeRef, animationRef, rafPending, timer,
                isPlaying, currTime, duration, isStitching, sources, tasks, nClicks>>

vars == <<storageVars, catalogVars, playerVars>>

---------------------------------------------------------------------------
(* Bounds *)

MaxOps == 3          \* storage calls started in one behaviour

CallIds == {1, 2}    \* call frames that can be in flight at once

MaxChanges == 2      \* uploads and deletions started in one behaviour
MaxNow == 1          \* values Date.now() takes: 0..MaxNow
LoadIds == {1, 2}    \* loadFolders invocations that can be in flight at once

MaxClicks == 3       \* play clicks, volume and catalog changes in one behaviour
MaxQuanta == 3       \* render quanta an AudioContext's clock advances
MantissaBits == 3    \* significant bits a number keeps (a double keeps 53)
TaskIds == {1, 2}    \* async handlers of StitchAudio in flight at once

---------------------------------------------------------------------------
(* Paths.  A raw path is a sequence of tokens; the token "/" is the        *)
(* separator, every other token is a piece of a name.  A name is a         *)
(* non-empty sequence of tokens, a parsed path a sequence of names.        *)

SEP == "/"

\* String.prototype.split("/"): the pieces between separators, empty ones kept
RECURSIVE SplitFrom(_, _, _)
SplitFrom(raw, i, cur) ==
  IF i > Len(raw) THEN <<cur>>
  ELSE IF raw[i] = SEP THEN <<cur>> \o SplitFrom(raw, i + 1, <<>>)
  ELSE SplitFrom(raw, i + 1, Append(cur, raw[i]))

Split(raw) == SplitFrom(raw, 1, <<>>)

\* Array.prototype.filter(Boolean) on an array of strings: drops the empty ones
FilterBoolean(segs) == SelectSeq(segs, LAMBDA s : s /= <<>>)

\* path.split("/").filter(Boolean)
Parts(raw) == FilterBoolean(Split(raw))

\* parts.pop(): the last element (or none) and the rest
Last(s) == s[Len(s)]
Front(s) == SubSeq(s, 1, Len(s) - 1)

IsPrefix(p, q) == Len(p) <= Len(q) /\ SubSeq(q, 1, Len(p)) = p

---------------------------------------------------------------------------
(* Payloads handed to saveFile *)

\* TextEncoder.encode of one code point (UTF-8, code points below 0x800)
Utf8(cp) == IF cp < 128 THEN <<cp>> ELSE <<192 + (cp \div 64), 128 + (cp % 64)>>

RECURSIVE TextEncoderEncode(_)
TextEncoderEncode(str) ==
  IF str = <<>> THEN <<>> ELSE Utf8(Head(str)) \o TextEncoderEncode(Tail(str))

\* ArrayBuffer.prototype.slice(begin, end)
Slice(buf, begin, end) == SubSeq(buf, begin + 1, end)

\* the bytes a payload stands for: the UTF-8 encoding of a string, the bytes of a
\* buffer or blob, the window of a typed view
DataBytes(d) ==
  CASE d.type = "string" -> TextEncoderEncode(d.bytes)
    [] d.type = "view"   -> [i \in 1..d.len |-> d.bytes[d.off + i]]
    [] OTHER             -> d.bytes

NoData == [type |-> "none", bytes |-> <<>>, off |-> 0, len |-> 0, readable |-> TRUE]

MkData(t, b, o, l, r) == [type |-> t, bytes |-> b, off |-> o, len |-> l, readable |-> r]

DataInputs ==
  { MkData("string", <<65, 233>>, 0, 0, TRUE),      \* "Aé": 3 bytes
    MkData("buffer", <<7>>, 0, 0, TRUE),            \* ArrayBuffer of 1 byte
    MkData("view", <<1, 2, 3>>, 1, 1, TRUE),        \* Uint8Array(buf, 1, 1)
    MkData("blob", <<3, 4>>, 0, 0, TRUE),           \* Blob of 2 bytes
    MkData("blob", <<5>>, 0, 0, FALSE),             \* Blob whose read fails
    MkData("other", <<>>, 0, 0, TRUE) }             \* not a supported payload type

---------------------------------------------------------------------------
(* The platform file system (FileSystemDirectoryHandle, FileSystemFileHandle, *)
(* FileSystemSyncAccessHandle, FileSystemWritableFileStream).  A handle is    *)
(* a locator: the path of the entry.                                          *)

Root == <<>>

DirEntry == [kind |-> "directory", data |-> <<>>]
FileEntry(b) == [kind |-> "file", data |-> b]

Exists(f, p) == p = Root \/ p \in DOMAIN f
IsDir(f, p) == p = Root \/ (p \in DOMAIN f /\ f[p].kind = "directory")
IsFile(f, p) == p \in DOMAIN f /\ f[p].kind = "file"

Put(f, p, e) == [q \in DOMAIN f \cup {p} |-> IF q = p THEN e ELSE f[q]]
\* a removal that takes the entry and leaves what is beneath it
RemoveTreeShallow(f, p) == [q \in DOMAIN f \ {p} |-> f[q]]

RemoveTree(f, p) == [q \in {r \in DOMAIN f : ~IsPrefix(p, r)} |-> f[q]]

Ok(f, h) == [ok |-> TRUE, err |-> "", fs |-> f, handle |-> h]
Err(f, e) == [ok |-> FALSE, err |-> e, fs |-> f, handle |-> Root]

\* a lookup that creates the directory whether asked to or not
GetDirectoryHandleCreating(f, dir, name, create) ==
  LET p == Append(dir, name) IN
  IF ~IsDir(f, dir) THEN Err(f, "NotFoundError")
  ELSE IF IsDir(f, p) THEN Ok(f, p)
  ELSE IF IsFile(f, p) THEN Err(f, "TypeMismatchError")
  ELSE Ok(Put(f, p, DirEntry), p)

\* dirHandle.getDirectoryHandle(name, {create})
GetDirectoryHandle(f, dir, name, create) ==
  LET p == Append(dir, name) IN
  IF ~IsDir(f, dir) THEN Err(f, "NotFoundError")
  ELSE IF IsDir(f, p) THEN Ok(f, p)
  ELSE IF IsFile(f, p) THEN Err(f, "TypeMismatchError")
  ELSE IF create THEN Ok(Put(f, p, DirEntry), p)
  ELSE Err(f, "NotFoundError")

\* dirHandle.getFileHandle(name, {create})
GetFileHandle(f, dir, name, create) ==
  LET p == Append(dir, name) IN
  IF ~IsDir(f, dir) THEN Err(f, "NotFoundError")
  ELSE IF IsFile(f, p) THEN Ok(f, p)
  ELSE IF IsDir(f, p) THEN Err(f, "TypeMismatchError")
  ELSE IF create THEN Ok(Put(f, p, FileEntry(<<>>)), p)
  ELSE Err(f, "NotFoundError")

LockedUnder(lk, p) == \E l \in lk : IsPrefix(p, l.path)

\* dirHandle.removeEntry(name, {recursive}): refused while the entry, or a file
\* beneath it, is locked by an open access handle or writable stream
RemoveEntry(f, lk, dir, name, recursive) ==
  LET p == Append(dir, name) IN
  IF ~IsDir(f, dir) \/ ~Exists(f, p) THEN Err(f, "NotFoundError")
  ELSE IF LockedUnder(lk, p) THEN Err(f, "NoModificationAllowedError")
  ELSE IF ~recursive /\ (\E q \in DOMAIN f : q /= p /\ IsPrefix(p, q))
       THEN Err(f, "InvalidModificationError")
  ELSE Ok(RemoveTree(f, p), p)

\* for await (const [name, handle] of dirHandle.entries())
Entries(f, dir) ==
  { <<Last(q), f[q]>> : q \in {r \in DOMAIN f : Len(r) = Len(dir) + 1 /\ IsPrefix(dir, r)} }

\* FileSystemSyncAccessHandle.truncate(newSize)
Truncate(content, n) ==
  IF n <= Len(content) THEN SubSeq(content, 1, n)
  ELSE content \o [i \in 1..(n - Len(content)) |-> 0]

\* FileSystemSyncAccessHandle.write(buffer) / writable.write(data) at a position
WriteAt(content, at, bytes) ==
  LET padded == IF at > Len(content) THEN Truncate(content, at) ELSE content
  IN SubSeq(padded, 1, at) \o bytes
       \o SubSeq(padded, at + Len(bytes) + 1, Len(padded))

\* FileSystemSyncAccessHandle.read(buffer, {at}): fills buffer, returns it
ReadInto(content, size, at) ==
  [i \in 1..size |-> IF at + i <= Len(content) THEN content[at + i] ELSE 0]

---------------------------------------------------------------------------
(* OpfsStorage: the frame of one call *)

IdleFrame ==
  [op |-> "none", path |-> <<>>, data |-> NoData, pc |-> "idle",
   parts |-> <<>>, dirHandle |-> Root, fileName |-> <<>>, file |-> Root,
   swap |-> <<>>, snap |-> <<>>, result |-> <<>>, names |-> {}, err |-> "",
   root |-> 0, exists |-> FALSE, size |-> 0, quiet |-> TRUE]

Ops == {"save", "read", "details", "listDirs", "listFiles", "delFile", "delDir"}

\* raw paths the calls are made with
PathAF == <<"a", SEP, "f">>               \* "a/f"
PathABF == <<"a", SEP, "b", SEP, "f">>    \* "a/b/f"
PathA == <<"a">>                          \* "a"
PathAB == <<"a", SEP, SEP, "b">>          \* "a//b": an empty piece inside
PathNone == <<SEP>>                       \* "/": no name left after splitting
PathEmpty == <<>>                         \* "": the default of the listings

StringData == MkData("string", <<65, 233>>, 0, 0, TRUE)

In(o, p, d) == [op |-> o, path |-> p, data |-> d]

\* the calls made: every payload kind on one file, a nested file, listings of
\* the root and of a folder, deletions, and a path without a leaf name
CallInputs ==
  { In("save", PathAF, d) : d \in DataInputs }
  \cup { In("save", PathABF, StringData), In("save", PathNone, StringData),
         In("read", PathAF, NoData), In("read", PathABF, NoData),
         In("details", PathAF, NoData), In("details", PathABF, NoData),
         In("details", PathA, NoData), In("details", PathEmpty, NoData),
         In("listDirs", PathEmpty, NoData), In("listDirs", PathA, NoData),
         In("listFiles", PathA, NoData),
         In("delFile", PathAF, NoData),
         In("delDir", PathA, NoData), In("delDir", PathAB, NoData),
         In("read", PathNone, NoData), In("delFile", PathEmpty, NoData),
         In("delDir", PathNone, NoData) }

\* the outcome of a call: what the caller sees, the locals dropped
Outcome(fr) == [IdleFrame EXCEPT !.op = fr.op, !.path = fr.path, !.data = fr.data,
                                 !.file = fr.file, !.root = fr.root, !.quiet = fr.quiet]
\* getFileDetails' "return { exists: false, size: 0 }"
NoDetails(fr) == [Outcome(fr) EXCEPT !.pc = "done", !.exists = FALSE, !.size = 0]
\* getFileDetails' "return { exists: true, size }"
Details(fr, n) == [Outcome(fr) EXCEPT !.pc = "done", !.exists = TRUE, !.size = n]
\* the call throws e; the catch of getFileDetails turns every throw into its
\* answer for a file that does not exist
Failed(fr, e) ==
  IF fr.op = "details" THEN NoDetails(fr)
  ELSE [Outcome(fr) EXCEPT !.pc = "failed", !.err = e]
Done(fr) == [Outcome(fr) EXCEPT !.pc = "done"]
Returned(fr, bytes) == [Outcome(fr) EXCEPT !.pc = "done", !.result = bytes]
Listed(fr, ns) == [Outcome(fr) EXCEPT !.pc = "done", !.names = ns]

\* OpfsStorage._getExecutionContext
GetExecutionContext ==
  IF envContext = "worker" THEN "worker"
  ELSE IF envContext = "window" THEN "window"
  ELSE "unknown"

EmitChangeAnywhere(evts, detail) == Append(evts, detail)

\* OpfsStorage.emitChange: dispatches on window where there is a window
EmitChange(evts, detail) ==
  IF envContext = "window" THEN Append(evts, detail) ELSE evts

Detail(t, fr) == [type |-> t, path |-> fr.path]

\* the worker branch's conversion of the payload to an ArrayBuffer
\* (the Blob case is the awaited data.arrayBuffer())
WorkerBuffer(d) ==
  CASE d.type = "string" -> TextEncoderEncode(d.bytes)
    [] d.type = "buffer" -> d.bytes
    [] d.type = "view"   -> Slice(d.bytes, d.off, d.off + d.len)
    [] d.type = "blob"   -> d.bytes
    [] OTHER             -> <<>>

WorkerWriteNoTruncate(content, buffer) == WriteAt(content, 0, buffer)

\* syncHandle.truncate(0); syncHandle.write(buffer); syncHandle.flush()
WorkerWrite(content, buffer) == WriteAt(Truncate(content, 0), 0, buffer)

\* createWritable(): a fresh swap file (keepExistingData is not asked for)
NewSwap(content) == <<>>

\* writable.write(data) on the fresh stream: the payload's bytes at position 0
WritableWrite(swap, d) == WriteAt(swap, 0, DataBytes(d))

Forget(saved, p) == [q \in {r \in DOMAIN saved : ~IsPrefix(p, r)} |-> saved[q]]

---------------------------------------------------------------------------
(* OpfsStorage: starting a call, and _ensureInit *)

\* the frame fr is a saveFile that has neither returned nor thrown
Saving(fr) == fr.op = "save" /\ fr.pc \notin {"idle", "done", "failed"}

\* a caller invokes one of the static methods; quiet (history) records
\* whether a saveFile has been under way at any time since the call began
Call(c) ==
  /\ calls[c].pc = "idle"
  /\ nCalls < MaxOps
  /\ \A b \in CallIds : b < c => calls[b].pc /= "idle"
  /\ \E in \in CallInputs :
       calls' = [b \in CallIds |->
                   IF b = c
                     THEN [IdleFrame EXCEPT !.op = in.op, !.path = in.path,
                                            !.data = in.data, !.pc = "start",
                                            !.quiet = ~\E d \in CallIds \ {c} : Saving(calls[d])]
                   ELSE IF in.op = "save" /\ calls[b].pc /= "idle"
                     THEN [calls[b] EXCEPT !.quiet = FALSE]
                   ELSE calls[b]]
  /\ nCalls' = nCalls + 1
  /\ UNCHANGED <<envContext, envHasOpfs, envGetDirOk, fs, locks, rootDir, context,
                 initPromise, events, getDirCalls, lastSaved>>

\* _ensureInit's two guards: "if (this.rootDir) return" and
\* "if (this.initPromise) { await this.initPromise; return }"
EnsureInitRootOnly ==
  IF rootDir /= 0 THEN "return" ELSE "init"

EnsureInitBranch ==
  IF rootDir /= 0 THEN "return"
  ELSE IF initPromise /= "null" THEN "await"
  ELSE "init"

\* the first await of every method: OpfsStorage._ensureInit up to its await
EnsureInit(c) ==
  /\ calls[c].pc = "start"
  /\ IF EnsureInitBranch = "return"
       THEN /\ calls' = [calls EXCEPT ![c].pc = "ready"]
            /\ UNCHANGED <<context, initPromise, getDirCalls>>
     ELSE IF EnsureInitBranch = "await"
       THEN /\ calls' = [calls EXCEPT ![c].pc = "awaitInit"]
            /\ UNCHANGED <<context, initPromise, getDirCalls>>
     ELSE /\ context' = GetExecutionContext
          /\ calls' = [calls EXCEPT ![c].pc = "awaitInit"]
          /\ IF GetExecutionContext = "unknown" \/ ~envHasOpfs
               THEN initPromise' = "rejected" /\ UNCHANGED getDirCalls
               ELSE initPromise' = "pending" /\ getDirCalls' = getDirCalls + 1
  /\ UNCHANGED <<envContext, envHasOpfs, envGetDirOk, fs, locks, rootDir, events,
                 lastSaved, nCalls>>

\* navigator.storage.getDirectory() settles: this.rootDir = the handle
GetDirectorySettles ==
  /\ initPromise = "pending"
  /\ IF envGetDirOk
       THEN rootDir' = getDirCalls /\ initPromise' = "fulfilled"
       ELSE rootDir' = rootDir /\ initPromise' = "rejected"
  /\ UNCHANGED <<envContext, envHasOpfs, envGetDirOk, fs, locks, context, calls,
                 events, getDirCalls, lastSaved, nCalls>>

\* await this.initPromise resumes the caller
AwaitInit(c) ==
  /\ calls[c].pc = "awaitInit"
  /\ initPromise \in {"fulfilled", "rejected"}
  /\ calls' = [calls EXCEPT ![c] =
                 IF initPromise = "fulfilled" THEN [@ EXCEPT !.pc = "ready"]
                 ELSE Failed(@, "InitializationError")]
  /\ UNCHANGED <<envContext, envHasOpfs, envGetDirOk, fs, locks, rootDir, context,
                 initPromise, events, getDirCalls, lastSaved, nCalls>>

---------------------------------------------------------------------------
(* OpfsStorage: path resolution (_ensureDirectory and the inline loops) *)

\* only saveFile pops a leaf name
UsesLeafInSave(o) == o = "save"

\* the methods that pop the leaf name off the split path
UsesLeaf(o) == o \in {"save", "read", "details", "delFile", "delDir"}

\* after _ensureInit: the rootDir check, then the synchronous head of
\* _ensureDirectory (save, read, deleteFile), of deleteDirectory, or of the
\* listing methods: split the path, pop the leaf name, start at the root
Ready(c) ==
  LET fr == calls[c]
      parts == Parts(fr.path)
  IN
  /\ fr.pc = "ready"
  /\ calls' = [calls EXCEPT ![c] =
       IF rootDir = 0 THEN Failed(fr, "OPFS not initialized")
       ELSE IF UsesLeaf(fr.op)
         THEN IF parts = <<>>
                THEN Failed(fr, IF fr.op = "delDir" THEN "Invalid directory path"
                                ELSE "Invalid file path")
                ELSE [fr EXCEPT !.root = rootDir, !.dirHandle = Root,
                                !.fileName = Last(parts), !.parts = Front(parts),
                                !.pc = IF Front(parts) = <<>> THEN "leaf" ELSE "navigate"]
         ELSE [fr EXCEPT !.root = rootDir, !.dirHandle = Root, !.parts = parts,
                         !.pc = IF parts = <<>> THEN "leaf" ELSE "navigate"]]
  /\ UNCHANGED <<envContext, envHasOpfs, envGetDirOk, fs, locks, rootDir, context,
                 initPromise, events, getDirCalls, lastSaved, nCalls>>

\* one turn of "for (const part of parts) dirHandle = await
\* dirHandle.getDirectoryHandle(part, {create})"; only saveFile creates
Navigate(c) ==
  LET fr == calls[c]
      r == GetDirectoryHandle(fs, fr.dirHandle, Head(fr.parts), fr.op = "save")
  IN
  /\ fr.pc = "navigate"
  /\ fs' = r.fs
  /\ calls' = [calls EXCEPT ![c] =
       IF ~r.ok THEN Failed(fr, r.err)
       ELSE [fr EXCEPT !.dirHandle = r.handle, !.parts = Tail(fr.parts),
                       !.pc = IF Tail(fr.parts) = <<>> THEN "leaf" ELSE "navigate"]]
  /\ UNCHANGED <<envContext, envHasOpfs, envGetDirOk, locks, rootDir, context,
                 initPromise, events, getDirCalls, lastSaved, nCalls>>

---------------------------------------------------------------------------
(* OpfsStorage.listDirectories / listFiles *)

\* the names of the entries of the kind asked for
NamesOfKind(f, dir, kind) == { e[1] : e \in {x \in Entries(f, dir) : x[2].kind = kind} }

ListDirectoriesUnfiltered(f, dir) == { e[1] : e \in Entries(f, dir) }

\* listDirectories: if (handle.kind === "directory") directories.push(name)
ListDirectoriesOf(f, dir) == NamesOfKind(f, dir, "directory")

\* listFiles: if (handle.kind === "file") files.push(name)
ListFilesOf(f, dir) == NamesOfKind(f, dir, "file")

List(c) ==
  LET fr == calls[c] IN
  /\ fr.pc = "leaf"
  /\ fr.op \in {"listDirs", "listFiles"}
  /\ calls' = [calls EXCEPT ![c] =
       IF ~IsDir(fs, fr.dirHandle) THEN Failed(fr, "NotFoundError")
       ELSE Listed(fr, IF fr.op = "listDirs"
                         THEN ListDirectoriesOf(fs, fr.dirHandle)
                         ELSE ListFilesOf(fs, fr.dirHandle))]
  /\ UNCHANGED <<envContext, envHasOpfs, envGetDirOk, fs, locks, rootDir, context,
                 initPromise, events, getDirCalls, lastSaved, nCalls>>

---------------------------------------------------------------------------
(* OpfsStorage.deleteFile / deleteDirectory *)

\* await dirHandle.removeEntry(fileName); emitChange(file-deleted)
DeleteFile(c) ==
  LET fr == calls[c]
      r == RemoveEntry(fs, locks, fr.dirHandle, fr.fileName, FALSE)
  IN
  /\ fr.pc = "leaf"
  /\ fr.op = "delFile"
  /\ fs' = r.fs
  /\ calls' = [calls EXCEPT ![c] =
       IF r.ok THEN Done(fr) ELSE Failed(fr, r.err)]
  /\ events' = IF r.ok THEN EmitChange(events, Detail("file-deleted", fr)) ELSE events
  /\ lastSaved' = IF r.ok THEN Forget(lastSaved, r.handle) ELSE lastSaved
  /\ UNCHANGED <<envContext, envHasOpfs, envGetDirOk, locks, rootDir, context,
                 initPromise, getDirCalls, nCalls>>

\* await parentHandle.removeEntry(dirName, {recursive: true});
\* emitChange(directory-deleted)
DeleteDirectory(c) ==
  LET fr == calls[c]
      r == RemoveEntry(fs, locks, fr.dirHandle, fr.fileName, TRUE)
  IN
  /\ fr.pc = "leaf"
  /\ fr.op = "delDir"
  /\ fs' = r.fs
  /\ calls' = [calls EXCEPT ![c] =
       IF r.ok THEN Done(fr) ELSE Failed(fr, r.err)]
  /\ events' = IF r.ok THEN EmitChange(events, Detail("directory-deleted", fr)) ELSE events
  /\ lastSaved' = IF r.ok THEN Forget(lastSaved, r.handle) ELSE lastSaved
  /\ UNCHANGED <<envContext, envHasOpfs, envGetDirOk, locks, rootDir, context,
                 initPromise, getDirCalls, nCalls>>

---------------------------------------------------------------------------
(* OpfsStorage.saveFile *)

Holds(c, p, m) == [path |-> p, mode |-> m, owner |-> c]
CanLock(lk, p, m) ==
  IF m = "exclusive" THEN ~\E l \in lk : l.path = p
  ELSE ~\E l \in lk : l.path = p /\ l.mode = "exclusive"

StoreFile(c, content) == Put(fs, calls[c].file, FileEntry(content))
Remember(c) ==
  Put(lastSaved, calls[c].file,
      [bytes |-> DataBytes(calls[c].data), old |-> Len(fs[calls[c].file].data)])

\* dirHandle.getFileHandle(fileName, {create: true})
SaveGetFileHandle(c) ==
  LET fr == calls[c]
      r == GetFileHandle(fs, fr.dirHandle, fr.fileName, TRUE)
  IN
  /\ fr.pc = "leaf"
  /\ fr.op = "save"
  /\ fs' = r.fs
  /\ calls' = [calls EXCEPT ![c] =
       IF ~r.ok THEN Failed(fr, r.err)
       ELSE [fr EXCEPT !.file = r.handle,
                       !.pc = IF context = "worker" THEN "openSync"
                              ELSE "createWritable"]]
  /\ UNCHANGED <<envContext, envHasOpfs, envGetDirOk, locks, rootDir, context,
                 initPromise, events, getDirCalls, lastSaved, nCalls>>

\* worker: createSyncAccessHandle(), then the try block up to its first await:
\* a string, ArrayBuffer or view is converted, written and the handle closed in
\* this same turn; a Blob awaits data.arrayBuffer() with the handle open; any
\* other payload throws and the finally closes the handle
SaveOpenSync(c) ==
  LET fr == calls[c] IN
  /\ fr.pc = "openSync"
  /\ fr.op = "save"
  /\ IF ~IsFile(fs, fr.file)
       THEN /\ calls' = [calls EXCEPT ![c] = Failed(fr, "NotFoundError")]
            /\ UNCHANGED <<fs, locks, events, lastSaved>>
     ELSE IF ~CanLock(locks, fr.file, "exclusive")
       THEN /\ calls' = [calls EXCEPT ![c] = Failed(fr, "NoModificationAllowedError")]
            /\ UNCHANGED <<fs, locks, events, lastSaved>>
     ELSE IF fr.data.type = "blob"
       THEN /\ calls' = [calls EXCEPT ![c].pc = "blobRead"]
            /\ locks' = locks \cup {Holds(c, fr.file, "exclusive")}
            /\ UNCHANGED <<fs, events, lastSaved>>
     ELSE IF fr.data.type \in {"string", "buffer", "view"}
       THEN /\ fs' = StoreFile(c, WorkerWrite(fs[fr.file].data, WorkerBuffer(fr.data)))
            /\ calls' = [calls EXCEPT ![c] = Done(fr)]
            /\ events' = EmitChange(events, Detail("file-added", fr))
            /\ lastSaved' = Remember(c)
            /\ UNCHANGED locks
     ELSE /\ calls' = [calls EXCEPT ![c] = Failed(fr, "Unsupported data type")]
          /\ UNCHANGED <<fs, locks, events, lastSaved>>
  /\ UNCHANGED <<envContext, envHasOpfs, envGetDirOk, rootDir, context,
                 initPromise, getDirCalls, nCalls>>

\* a blob read whose failure leaves the handle open
SaveBlobReadLeaking(c) ==
  LET fr == calls[c] IN
  /\ fr.pc = "blobRead"
  /\ IF fr.data.readable
       THEN /\ fs' = StoreFile(c, WorkerWrite(fs[fr.file].data, WorkerBuffer(fr.data)))
            /\ calls' = [calls EXCEPT ![c] = Done(fr)]
            /\ events' = EmitChange(events, Detail("file-added", fr))
            /\ lastSaved' = Remember(c)
            /\ locks' = locks \ {Holds(c, fr.file, "exclusive")}
       ELSE /\ calls' = [calls EXCEPT ![c] = Failed(fr, "NotReadableError")]
            /\ UNCHANGED <<fs, events, lastSaved, locks>>
  /\ UNCHANGED <<envContext, envHasOpfs, envGetDirOk, rootDir, context,
                 initPromise, getDirCalls, nCalls>>

\* worker: buffer = await data.arrayBuffer() settles; truncate, write, flush,
\* and the finally closes the handle on both outcomes
SaveBlobRead(c) ==
  LET fr == calls[c] IN
  /\ fr.pc = "blobRead"
  /\ locks' = locks \ {Holds(c, fr.file, "exclusive")}
  /\ IF fr.data.readable
       THEN /\ fs' = StoreFile(c, WorkerWrite(fs[fr.file].data, WorkerBuffer(fr.data)))
            /\ calls' = [calls EXCEPT ![c] = Done(fr)]
            /\ events' = EmitChange(events, Detail("file-added", fr))
            /\ lastSaved' = Remember(c)
       ELSE /\ calls' = [calls EXCEPT ![c] = Failed(fr, "NotReadableError")]
            /\ UNCHANGED <<fs, events, lastSaved>>
  /\ UNCHANGED <<envContext, envHasOpfs, envGetDirOk, rootDir, context,
                 initPromise, getDirCalls, nCalls>>

\* window: const writable = await fileHandle.createWritable()
SaveCreateWritable(c) ==
  LET fr == calls[c] IN
  /\ fr.pc = "createWritable"
  /\ IF ~IsFile(fs, fr.file)
       THEN /\ calls' = [calls EXCEPT ![c] = Failed(fr, "NotFoundError")]
            /\ UNCHANGED locks
     ELSE IF ~CanLock(locks, fr.file, "shared")
       THEN /\ calls' = [calls EXCEPT ![c] = Failed(fr, "NoModificationAllowedError")]
            /\ UNCHANGED locks
     ELSE /\ calls' = [calls EXCEPT ![c] =
                         [fr EXCEPT !.pc = "write", !.swap = NewSwap(fs[fr.file].data)]]
          /\ locks' = locks \cup {Holds(c, fr.file, "shared")}
  /\ UNCHANGED <<envContext, envHasOpfs, envGetDirOk, fs, rootDir, context,
                 initPromise, events, getDirCalls, lastSaved, nCalls>>

\* window: await writable.write(data); a payload the stream does not accept, or
\* a Blob that cannot be read, errors the stream, which releases its lock
SaveWrite(c) ==
  LET fr == calls[c] IN
  /\ fr.pc = "write"
  /\ IF fr.data.type \in {"string", "buffer", "view", "blob"} /\ fr.data.readable
       THEN /\ calls' = [calls EXCEPT ![c] =
                           [fr EXCEPT !.pc = "close", !.swap = WritableWrite(fr.swap, fr.data)]]
            /\ UNCHANGED locks
       ELSE /\ calls' = [calls EXCEPT ![c] = Failed(fr, "TypeError")]
            /\ locks' = locks \ {Holds(c, fr.file, "shared")}
  /\ UNCHANGED <<envContext, envHasOpfs, envGetDirOk, fs, rootDir, context,
                 initPromise, events, getDirCalls, lastSaved, nCalls>>

\* window: await writable.close() commits the swap file; then emitChange
SaveClose(c) ==
  LET fr == calls[c] IN
  /\ fr.pc = "close"
  /\ fs' = StoreFile(c, fr.swap)
  /\ locks' = locks \ {Holds(c, fr.file, "shared")}
  /\ calls' = [calls EXCEPT ![c] = Done(fr)]
  /\ events' = EmitChange(events, Detail("file-added", fr))
  /\ lastSaved' = Remember(c)
  /\ UNCHANGED <<envContext, envHasOpfs, envGetDirOk, rootDir, context,
                 initPromise, getDirCalls, nCalls>>

---------------------------------------------------------------------------
(* OpfsStorage.readFile *)

\* dirHandle.getFileHandle(fileName)
ReadGetFileHandle(c) ==
  LET fr == calls[c]
      r == GetFileHandle(fs, fr.dirHandle, fr.fileName, FALSE)
  IN
  /\ fr.pc = "leaf"
  /\ fr.op = "read"
  /\ fs' = r.fs
  /\ calls' = [calls EXCEPT ![c] =
       IF ~r.ok THEN Failed(fr, r.err)
       ELSE [fr EXCEPT !.file = r.handle,
                       !.pc = IF context = "worker" THEN "openSync" ELSE "getFile"]]
  /\ UNCHANGED <<envContext, envHasOpfs, envGetDirOk, locks, rootDir, context,
                 initPromise, events, getDirCalls, lastSaved, nCalls>>

\* worker: size = getSize(); buffer = new ArrayBuffer(size); read(buffer, {at: 0})
WorkerRead(content) == ReadInto(content, Len(content), 0)

\* worker: createSyncAccessHandle(), read, close in one turn
ReadOpenSync(c) ==
  LET fr == calls[c] IN
  /\ fr.pc = "openSync"
  /\ fr.op = "read"
  /\ calls' = [calls EXCEPT ![c] =
       IF ~IsFile(fs, fr.file) THEN Failed(fr, "NotFoundError")
       ELSE IF ~CanLock(locks, fr.file, "exclusive")
         THEN Failed(fr, "NoModificationAllowedError")
       ELSE Returned(fr, WorkerRead(fs[fr.file].data))]
  /\ UNCHANGED <<envContext, envHasOpfs, envGetDirOk, fs, locks, rootDir, context,
                 initPromise, events, getDirCalls, lastSaved, nCalls>>

\* window: const file = await fileHandle.getFile(): a snapshot of the file
ReadGetFile(c) ==
  LET fr == calls[c] IN
  /\ fr.pc = "getFile"
  /\ fr.op = "read"
  /\ calls' = [calls EXCEPT ![c] =
       IF ~IsFile(fs, fr.file) THEN Failed(fr, "NotFoundError")
       ELSE [fr EXCEPT !.pc = "arrayBuffer", !.snap = fs[fr.file].data]]
  /\ UNCHANGED <<envContext, envHasOpfs, envGetDirOk, fs, locks, rootDir, context,
                 initPromise, events, getDirCalls, lastSaved, nCalls>>

\* window: return await file.arrayBuffer(): the snapshot's bytes, or
\* NotReadableError when the file changed after the snapshot was taken
ReadArrayBuffer(c) ==
  LET fr == calls[c] IN
  /\ fr.pc = "arrayBuffer"
  /\ calls' = [calls EXCEPT ![c] =
       IF IsFile(fs, fr.file) /\ fs[fr.file].data = fr.snap
         THEN Returned(fr, fr.snap)
         ELSE Failed(fr, "NotReadableError")]
  /\ UNCHANGED <<envContext, envHasOpfs, envGetDirOk, fs, locks, rootDir, context,
                 initPromise, events, getDirCalls, lastSaved, nCalls>>

---------------------------------------------------------------------------
(* OpfsStorage.getFileDetails *)

\* dirHandle.getFileHandle(fileName)
DetailsGetFileHandle(c) ==
  LET fr == calls[c]
      r == GetFileHandle(fs, fr.dirHandle, fr.fileName, FALSE)
  IN
  /\ fr.pc = "leaf"
  /\ fr.op = "details"
  /\ fs' = r.fs
  /\ calls' = [calls EXCEPT ![c] =
       IF ~r.ok THEN Failed(fr, r.err)
       ELSE [fr EXCEPT !.file = r.handle,
                       !.pc = IF context = "worker" THEN "openSync" ELSE "getFile"]]
  /\ UNCHANGED <<envContext, envHasOpfs, envGetDirOk, locks, rootDir, context,
                 initPromise, events, getDirCalls, lastSaved, nCalls>>

SizeOfNothing(content) == 0

\* syncHandle.getSize() / file.size
GetSize(content) == Len(content)

\* worker: createSyncAccessHandle(), getSize(), close in one turn
DetailsOpenSync(c) ==
  LET fr == calls[c] IN
  /\ fr.pc = "openSync"
  /\ fr.op = "details"
  /\ calls' = [calls EXCEPT ![c] =
       IF ~IsFile(fs, fr.file) THEN Failed(fr, "NotFoundError")
       ELSE IF ~CanLock(locks, fr.file, "exclusive")
         THEN Failed(fr, "NoModificationAllowedError")
       ELSE Details(fr, GetSize(fs[fr.file].data))]
  /\ UNCHANGED <<envContext, envHasOpfs, envGetDirOk, fs, locks, rootDir, context,
                 initPromise, events, getDirCalls, lastSaved, nCalls>>

\* window: const file = await fileHandle.getFile(); file.size
DetailsGetFile(c) ==
  LET fr == calls[c] IN
  /\ fr.pc = "getFile"
  /\ fr.op = "details"
  /\ calls' = [calls EXCEPT ![c] =
       IF ~IsFile(fs, fr.file) THEN Failed(fr, "NotFoundError")
       ELSE Details(fr, GetSize(fs[fr.file].data))]
  /\ UNCHANGED <<envContext, envHasOpfs, envGetDirOk, fs, locks, rootDir, context,
                 initPromise, events, getDirCalls, lastSaved, nCalls>>

\* the caller takes the outcome; the frame is free again
Return(c) ==
  /\ calls[c].pc \in {"done", "failed"}
  /\ calls' = [calls EXCEPT ![c] = IdleFrame]
  /\ UNCHANGED <<envContext, envHasOpfs, envGetDirOk, fs, locks, rootDir, context,
                 initPromise, events, getDirCalls, lastSaved, nCalls>>

---------------------------------------------------------------------------
(* Text and JSON.  A string is a sequence of code points; an atom of a     *)
(* name stands for a run of characters without "/" and "."                 *)

AtomCp(t) ==
  CASE t = "a" -> 97 [] t = "b" -> 98 [] t = "c" -> 99 [] t = "." -> 46
    [] t = "mp3" -> 109 [] t = "wav" -> 119 [] t = "txt" -> 116
    [] t = "metadata" -> 77 [] t = "json" -> 74 [] t = SEP -> 47

Atoms == {"a", "b", "c", ".", "mp3", "wav", "txt", "metadata", "json", SEP}

CpAtom(cp) == CHOOSE t \in Atoms : AtomCp(t) = cp

NameCps(name) == [i \in 1..Len(name) |-> AtomCp(name[i])]

\* new TextDecoder().decode(buffer): UTF-8, one- and two-byte sequences; a
\* byte that starts no sequence decodes to U+FFFD
RECURSIVE TextDecoderDecode(_)
TextDecoderDecode(bytes) ==
  IF bytes = <<>> THEN <<>>
  ELSE IF Head(bytes) < 128 THEN <<Head(bytes)>> \o TextDecoderDecode(Tail(bytes))
  ELSE IF Head(bytes) >= 192 /\ Len(bytes) >= 2 /\ bytes[2] \in 128..191
    THEN <<(Head(bytes) - 192) * 64 + (bytes[2] - 128)>>
           \o TextDecoderDecode(Tail(Tail(bytes)))
  ELSE <<65533>> \o TextDecoderDecode(Tail(bytes))

\* the AudioMetadata fields the catalog reads: name (the folder) and uploadedAt
Meta(n, t) == [name |-> n, uploadedAt |-> t]
NoMeta == Meta(<<>>, 0)

\* JSON.stringify(metadata): {name,uploadedAt}
JsonStringify(m) == <<123>> \o NameCps(m.name) \o <<44, 48 + m.uploadedAt, 125>>

\* JSON.parse(text): the value, or a SyntaxError
JsonParse(text) ==
  LET n == Len(text) IN
  IF /\ n >= 4
     /\ text[1] = 123 /\ text[n] = 125 /\ text[n - 2] = 44
     /\ text[n - 1] \in 48..57
     /\ \A i \in 2..(n - 3) : \E t \in Atoms : AtomCp(t) = text[i]
    THEN [ok |-> TRUE,
          value |-> Meta([i \in 1..(n - 4) |-> CpAtom(text[i + 1])], text[n - 1] - 48)]
    ELSE [ok |-> FALSE, value |-> NoMeta]

---------------------------------------------------------------------------
(* The storage calls the hook and the upload make, each taken as one step:  *)
(* the outcome of the OpfsStorage method on the tree of that moment, in the *)
(* window context                                                           *)

StorageUp == envContext = "window" /\ envHasOpfs /\ envGetDirOk

RECURSIVE Walk(_, _, _, _)
Walk(f, dir, parts, create) ==
  IF parts = <<>> THEN Ok(f, dir)
  ELSE LET r == GetDirectoryHandle(f, dir, Head(parts), create) IN
       IF r.ok THEN Walk(r.fs, r.handle, Tail(parts), create) ELSE r

\* _ensureInit, the rootDir check and _ensureDirectory(path, create)
EnsureDirectory(f, raw, create) ==
  IF ~StorageUp THEN Err(f, "InitializationError")
  ELSE IF Parts(raw) = <<>> THEN Err(f, "Invalid file path")
  ELSE Walk(f, Root, Front(Parts(raw)), create)

\* OpfsStorage.saveFile(path, data): the tree afterwards
SaveFileNow(f, raw, d) ==
  LET w == EnsureDirectory(f, raw, TRUE) IN
  IF ~w.ok THEN w
  ELSE LET h == GetFileHandle(w.fs, w.handle, Last(Parts(raw)), TRUE) IN
       IF ~h.ok THEN h
       ELSE IF d.type \notin {"string", "buffer", "view", "blob"} THEN Err(h.fs, "TypeError")
       ELSE Ok(Put(h.fs, h.handle,
                   FileEntry(WritableWrite(NewSwap(h.fs[h.handle].data), d))),
               h.handle)

\* OpfsStorage.readFile(path): the file whose bytes are returned
ReadFileNow(f, raw) ==
  LET w == EnsureDirectory(f, raw, FALSE) IN
  IF ~w.ok THEN w ELSE GetFileHandle(w.fs, w.handle, Last(Parts(raw)), FALSE)

\* OpfsStorage.listDirectories(path) / listFiles(path): the directory listed
ListNow(f, raw) ==
  IF ~StorageUp THEN Err(f, "InitializationError")
  ELSE Walk(f, Root, Parts(raw), FALSE)

\* OpfsStorage.deleteDirectory(path): the tree afterwards
DeleteDirectoryNow(f, raw) ==
  IF ~StorageUp THEN Err(f, "InitializationError")
  ELSE IF Parts(raw) = <<>> THEN Err(f, "Invalid directory path")
  ELSE LET w == Walk(f, Root, Front(Parts(raw)), FALSE) IN
       IF ~w.ok THEN w ELSE RemoveEntry(w.fs, {}, w.handle, Last(Parts(raw)), TRUE)

\* OpfsStorage.getFileDetails(path) in the window: every failure is caught
\* and answered with {exists: false, size: 0}
GetFileDetailsNow(f, raw) ==
  LET w == EnsureDirectory(f, raw, FALSE) IN
  IF ~w.ok THEN [exists |-> FALSE, size |-> 0]
  ELSE LET h == GetFileHandle(w.fs, w.handle, Last(Parts(raw)), FALSE) IN
       IF ~h.ok THEN [exists |-> FALSE, size |-> 0]
       ELSE [exists |-> TRUE, size |-> GetSize(h.fs[h.handle].data)]

---------------------------------------------------------------------------
(* useOpfsDirectories.loadFolders *)

META == <<"metadata", ".", "json">>     \* the name "metadata.json"

\* `${name}/metadata.json`
MetadataPath(name) == name \o <<SEP>> \o META

IdleLoad == [pc |-> "idle", dirs |-> <<>>, todo |-> {}, metas |-> <<>>]

\* the orders in which entries() may yield a set of names
Orders(S) ==
  { s \in [1..Cardinality(S) -> S] : \A i, j \in 1..Cardinality(S) : i /= j => s[i] /= s[j] }

\* insertion of x into a list sorted by uploadedAt descending, after its equals
RECURSIVE InsertDesc(_, _)
InsertDesc(sorted, x) ==
  IF sorted = <<>> THEN <<x>>
  ELSE IF Head(sorted).uploadedAt >= x.uploadedAt
    THEN <<Head(sorted)>> \o InsertDesc(Tail(sorted), x)
  ELSE <<x>> \o sorted

\* the entries left in the order of the listing
NotSorted(s) == s

\* Array.prototype.sort((a, b) => b.uploadedAt - a.uploadedAt): stable
RECURSIVE SortDesc(_)
SortDesc(s) ==
  IF s = <<>> THEN <<>> ELSE InsertDesc(SortDesc(Front(s)), Last(s))

\* readFile(metadataPath), TextDecoder, JSON.parse for one directory
LoadMetadata(f, name) ==
  LET r == ReadFileNow(f, MetadataPath(name)) IN
  IF ~r.ok THEN [ok |-> FALSE, err |-> r.err, value |-> NoMeta]
  ELSE LET p == JsonParse(TextDecoderDecode(f[r.handle].data)) IN
       IF p.ok THEN [ok |-> TRUE, err |-> "", value |-> p.value]
       ELSE [ok |-> FALSE, err |-> "SyntaxError", value |-> NoMeta]

\* a load begins: loadFolders() runs up to its first await
FreeLoad(ls) == CHOOSE l \in LoadIds : ls[l].pc = "idle" /\ \A k \in LoadIds : k < l => ls[k].pc /= "idle"
HasFreeLoad(ls) == \E l \in LoadIds : ls[l].pc = "idle"
StartLoad(ls) == [ls EXCEPT ![FreeLoad(ls)] = [IdleLoad EXCEPT !.pc = "list"]]

\* a handler that reloads only when a file was added
HandleOpfsChangeAdded(ls, detail) ==
  IF detail.type = "file-added" THEN StartLoad(ls) ELSE ls

\* handleOpfsChange: every kind of change event calls loadFolders()
HandleOpfsChange(ls, detail) ==
  IF detail.type \in {"file-added", "directory-added", "file-deleted", "directory-deleted"}
    THEN StartLoad(ls) ELSE ls

\* dispatchEvent runs the listener before emitChange returns
Dispatch(ls, detail) == IF envContext = "window" THEN HandleOpfsChange(ls, detail) ELSE ls

\* const directories = await OpfsStorage.listDirectories(); the reads of all
\* sidecars start.  A failing listing is caught: setError, setIsLoading(false);
\* with no directory Promise.all resolves at once: setFolders([])
LoadList(l) ==
  LET r == ListNow(fs, PathEmpty) IN
  /\ loads[l].pc = "list"
  /\ IF ~r.ok
       THEN /\ loads' = [loads EXCEPT ![l] = IdleLoad]
            /\ error' = r.err
            /\ isLoading' = FALSE
            /\ UNCHANGED folders
     ELSE \E order \in Orders(ListDirectoriesOf(fs, r.handle)) :
            IF order = <<>>
              THEN /\ loads' = [loads EXCEPT ![l] = IdleLoad]
                   /\ folders' = <<>>
                   /\ error' = "null"
                   /\ isLoading' = FALSE
              ELSE /\ loads' = [loads EXCEPT ![l] =
                                  [pc |-> "reads", dirs |-> order,
                                   todo |-> DOMAIN order,
                                   metas |-> [i \in DOMAIN order |-> NoMeta]]]
                   /\ UNCHANGED <<folders, error, isLoading>>
  /\ UNCHANGED <<storageVars, upload, now, nChanges>>

\* one of the reads under Promise.all settles.  The first that fails rejects
\* Promise.all: catch (setError), finally (setIsLoading(false)), and folders is
\* left as it was.  The last that succeeds resolves it: sort, setFolders,
\* setError(null), setIsLoading(false)
LoadRead(l) ==
  /\ loads[l].pc = "reads"
  /\ \E i \in loads[l].todo :
       LET m == LoadMetadata(fs, loads[l].dirs[i])
           metas == [loads[l].metas EXCEPT ![i] = m.value]
       IN
       IF ~m.ok
         THEN /\ loads' = [loads EXCEPT ![l] = IdleLoad]
              /\ error' = m.err
              /\ isLoading' = FALSE
              /\ UNCHANGED folders
       ELSE IF loads[l].todo = {i}
         THEN /\ loads' = [loads EXCEPT ![l] = IdleLoad]
              /\ folders' = SortDesc(metas)
              /\ error' = "null"
              /\ isLoading' = FALSE
       ELSE /\ loads' = [loads EXCEPT ![l].todo = @ \ {i}, ![l].metas = metas]
            /\ UNCHANGED <<folders, error, isLoading>>
  /\ UNCHANGED <<storageVars, upload, now, nChanges>>

---------------------------------------------------------------------------
(* AddNew.handleFileUpload and useOpfsDirectories.deleteFolder *)

File(n, t, b) == [name |-> n, type |-> t, bytes |-> b]
NoFile == File(<<>>, "", <<>>)

\* the files the user picks or drops
FileInputs ==
  { File(<<"a", ".", "mp3">>, "audio/mpeg", <<1, 1>>),
    File(<<"b", ".", "wav">>, "", <<2>>),
    File(<<"b", ".", "mp3">>, "audio/mpeg", <<4>>),
    File(<<"c", ".", "txt">>, "text/plain", <<3>>) }

\* AUDIO_MIME_TYPES: the extensions it has as keys, the MIME types as values
AudioExtensions == {"mp3", "wav"}
AudioMimeTypes == {"audio/mpeg", "audio/wav"}

\* the index of the last "." that is followed by at least one atom, or 0
LastDot(name) ==
  LET dots == {i \in 1..(Len(name) - 1) : name[i] = "." /\ \A j \in (i + 1)..Len(name) : name[j] \notin {".", SEP}}
  IN IF dots = {} THEN 0 ELSE CHOOSE i \in dots : \A j \in dots : j <= i

\* getAudioFolderName: file.name.replace(/\.[^/.]+$/, "")
GetAudioFolderName(file) ==
  IF LastDot(file.name) = 0 THEN file.name
  ELSE SubSeq(file.name, 1, LastDot(file.name) - 1)

\* fileName.split(".").pop()
Extension(name) ==
  LET dots == {i \in 1..Len(name) : name[i] = "."} IN
  IF dots = {} THEN name
  ELSE SubSeq(name, (CHOOSE i \in dots : \A j \in dots : j <= i) + 1, Len(name))

\* isValidAudioFile
IsValidAudioFile(file) ==
  IF file.type /= ""
    THEN file.type \in {"audio/mpeg", "audio/wav", "audio/x-unknown"} \/ file.type \in AudioMimeTypes
    ELSE Len(Extension(file.name)) = 1 /\ Extension(file.name)[1] \in AudioExtensions

\* createAudioMetadata: name and uploadedAt: Date.now()
CreateAudioMetadata(file, folderName) == Meta(GetAudioFolderName(file), now)

IdleUpload == [pc |-> "idle", file |-> NoFile, meta |-> NoMeta]

\* handleFileUpload up to its first await: the validity check,
\* setIsUploading(true), the folder name and the metadata
UploadStart ==
  /\ upload.pc = "idle"
  /\ nChanges < MaxChanges
  /\ \E file \in FileInputs :
       IF ~IsValidAudioFile(file)
         THEN upload' = upload
         ELSE upload' = [pc |-> "payload", file |-> file,
                         meta |-> CreateAudioMetadata(file, GetAudioFolderName(file))]
  /\ nChanges' = nChanges + 1
  /\ UNCHANGED <<storageVars, folders, isLoading, error, loads, now>>

\* await OpfsStorage.saveFile(filePath, file), filePath = `${folderName}/${file.name}`
UploadPayload ==
  LET folder == GetAudioFolderName(upload.file)
      path == folder \o <<SEP>> \o upload.file.name
      r == SaveFileNow(fs, path, MkData("blob", upload.file.bytes, 0, 0, TRUE))
      detail == [type |-> "file-added", path |-> path]
  IN
  /\ upload.pc = "payload"
  /\ HasFreeLoad(loads)
  /\ fs' = r.fs
  /\ IF r.ok
       THEN /\ events' = EmitChange(events, detail)
            /\ loads' = Dispatch(loads, detail)
            /\ upload' = [upload EXCEPT !.pc = "sidecar"]
       ELSE /\ upload' = IdleUpload
            /\ UNCHANGED <<events, loads>>
  /\ UNCHANGED <<envContext, envHasOpfs, envGetDirOk, locks, rootDir, context,
                 initPromise, calls, getDirCalls, lastSaved, nCalls,
                 folders, isLoading, error, now, nChanges>>

\* await OpfsStorage.saveFile(`${folderName}/metadata.json`, JSON.stringify(metadata));
\* finally setIsUploading(false)
UploadSidecar ==
  LET folder == GetAudioFolderName(upload.file)
      path == MetadataPath(folder)
      r == SaveFileNow(fs, path, MkData("string", JsonStringify(upload.meta), 0, 0, TRUE))
      detail == [type |-> "file-added", path |-> path]
  IN
  /\ upload.pc = "sidecar"
  /\ HasFreeLoad(loads)
  /\ fs' = r.fs
  /\ upload' = IdleUpload
  /\ IF r.ok
       THEN /\ events' = EmitChange(events, detail)
            /\ loads' = Dispatch(loads, detail)
       ELSE UNCHANGED <<events, loads>>
  /\ UNCHANGED <<envContext, envHasOpfs, envGetDirOk, locks, rootDir, context,
                 initPromise, calls, getDirCalls, lastSaved, nCalls,
                 folders, isLoading, error, now, nChanges>>

\* App.onClick on a card: deleteFolder(folder.name), which awaits
\* OpfsStorage.deleteDirectory(folderName); cards are shown when not loading
DeleteFolder ==
  /\ ~isLoading
  /\ nChanges < MaxChanges
  /\ HasFreeLoad(loads)
  /\ \E i \in DOMAIN folders :
       LET r == DeleteDirectoryNow(fs, folders[i].name)
           detail == [type |-> "directory-deleted", path |-> folders[i].name]
       IN /\ fs' = r.fs
          /\ IF r.ok
               THEN /\ events' = EmitChange(events, detail)
                    /\ loads' = Dispatch(loads, detail)
               ELSE UNCHANGED <<events, loads>>
  /\ nChanges' = nChanges + 1
  /\ UNCHANGED <<envContext, envHasOpfs, envGetDirOk, locks, rootDir, context,
                 initPromise, calls, getDirCalls, lastSaved, nCalls,
                 folders, isLoading, error, upload, now>>

\* the folder names of the model
A == <<"a">>
B == <<"b">>

\* a folder as an upload leaves it: the payload and the sidecar
WithFolder(f, name, payload, sidecar) ==
  Put(Put(Put(f, <<name>>, DirEntry),
          <<name, name \o <<".", "wav">> >>, FileEntry(payload)),
      <<name, META>>, FileEntry(sidecar))

\* time passes
Tick ==
  /\ now < MaxNow
  /\ now' = now + 1
  /\ UNCHANGED <<storageVars, folders, isLoading, error, loads, upload, nChanges>>

---------------------------------------------------------------------------
(* Numbers.  Times and durations are JavaScript numbers: a sum or a         *)
(* difference is rounded to the nearest number with MantissaBits            *)
(* significant bits, ties to even.                                          *)

RECURSIVE Pow2(_)
Pow2(n) == IF n = 0 THEN 1 ELSE 2 * Pow2(n - 1)

\* the spacing of the representable numbers around x >= 0
RECURSIVE UlpFrom(_, _)
UlpFrom(x, u) == IF x < u * Pow2(MantissaBits) THEN u ELSE UlpFrom(x, 2 * u)
Ulp(x) == UlpFrom(x, 1)

Abs(x) == IF x < 0 THEN -x ELSE x

RoundMagnitude(x) ==
  LET u == Ulp(x)
      q == x \div u
      r == x % u
  IN IF 2 * r < u THEN q * u
     ELSE IF 2 * r > u THEN (q + 1) * u
     ELSE IF q % 2 = 0 THEN q * u ELSE (q + 1) * u

Fl(x) == IF x < 0 THEN -RoundMagnitude(-x) ELSE RoundMagnitude(x)

\* a + b and a - b on numbers
Add(a, b) == Fl(a + b)
Sub(a, b) == Fl(a - b)

---------------------------------------------------------------------------
(* The platform audio engine: AudioContext, AudioBufferSourceNode, GainNode *)

\* seconds per render quantum, in the model's time unit
ClockQuantum == 4

\* new AudioContext(): created after a user activation, so it is running;
\* control is the state the control thread has been asked for, state the
\* attribute, which follows when the request completes; queue holds the
\* requests (suspend, resume, close) not completed yet, oldest first
NewContext == [state |-> "running", control |-> "running", time |-> 0, queue |-> <<>>]

Request(op, t) == [op |-> op, task |-> t]

\* suspend(), resume() and close() reject on a context that was asked to close
Rejects(cx) == cx.control = "closed"

Target(op) ==
  CASE op = "suspend" -> "suspended" [] op = "resume" -> "running" [] op = "close" -> "closed"

\* the call: the control state changes at once, the request is queued
Ask(cx, op, t) == [cx EXCEPT !.control = Target(op), !.queue = Append(@, Request(op, t))]

\* the oldest request completes: the state attribute changes, the promise
\* resolves
Complete(cx) == [cx EXCEPT !.state = Target(Head(cx.queue).op), !.queue = Tail(@)]

Awaited(cs, id, op, t) ==
  /\ id \in DOMAIN cs
  /\ cs[id].queue /= <<>>
  /\ Head(cs[id].queue) = Request(op, t)

\* audioCtx.decodeAudioData(buffer): the payload's first byte is the duration
\* of the audio it encodes; an empty payload or a zero byte is not audio
Decodable(bytes) == bytes /= <<>> /\ bytes[1] > 0
DecodedDuration(bytes) == bytes[1]

Source(cx, when, dur, last) == [ctx |-> cx, when |-> when, dur |-> dur, last |-> last, fired |-> FALSE]

---------------------------------------------------------------------------
(* useOpfsDirectories.getAllFiles, and the catalog as StitchAudio sees it *)

\* some file of the listing, the sidecar included
AudioFilesAny(f, dir) == ListFilesOf(f, dir)

\* files.find((file) => file !== "metadata.json"): some file of the listing
\* that is not the sidecar, in the order entries() yields them
AudioFilesOf(f, dir) == { n \in ListFilesOf(f, dir) : n /= META }

\* one folder of getAllFiles: the pair, or null when a read or the parse
\* fails or no payload file is found
FolderPayloads(f, name) ==
  LET l == ListNow(f, name)
      m == LoadMetadata(f, name)
  IN IF ~l.ok \/ ~m.ok THEN {}
     ELSE { [metadata |-> m.value, uploadedAt |-> m.value.uploadedAt,
             buffer |-> f[Append(l.handle, a)].data] : a \in AudioFilesOf(f, l.handle) }

\* the folders of the tree f for which getAllFiles finds a pair
PairedFolders(f) == { d \in ListDirectoriesOf(f, Root) : FolderPayloads(f, d) /= {} }

\* the results getAllFiles can return on the tree f when the listing yields
\* the folders in the given order: the pairs of the folders that have one,
\* nulls filtered out, sorted by uploadedAt descending
GetAllFilesListed(f, order) ==
  LET good == PairedFolders(f) IN
  { SortDesc([i \in DOMAIN order |-> pick[order[i]]]) :
      pick \in { p \in [good -> UNION { FolderPayloads(f, d) : d \in good }] :
                   \A d \in good : p[d] \in FolderPayloads(f, d) } }

\* the results getAllFiles can return on the tree f: one pair per folder that
\* yields one, in some listing order, sorted by uploadedAt descending
GetAllFilesResults(f) ==
  UNION { GetAllFilesListed(f, order) : order \in Orders(PairedFolders(f)) }

\* what a completed loadFolders leaves in folders on the tree f, if it succeeds
LoadResults(f) ==
  LET dirs == ListDirectoriesOf(f, Root) IN
  IF \E d \in dirs : ~LoadMetadata(f, d).ok THEN {}
  ELSE { SortDesc([i \in DOMAIN order |-> LoadMetadata(f, order[i]).value]) :
           order \in Orders(dirs) }

---------------------------------------------------------------------------
(* StitchAudio *)

DefaultVolume == 80

NoGain == [ctx |-> 0, gain |-> 0]
\* an async handler in flight: ctx is the audioCtx of its closure, waits the
\* context whose request it awaits, data what getAllFiles returned, from the
\* playback state in which it was invoked
Task(kind, pc, cx, waits, data, from) ==
  [kind |-> kind, pc |-> pc, ctx |-> cx, waits |-> waits, data |-> data, from |-> from]
IdleTask == Task("none", "idle", 0, 0, <<>>, "none")
InitialTimer == [duration |-> 0, startTime |-> 0, volume |-> DefaultVolume, filesLen |-> 0]

HasFreeTask == \E t \in TaskIds : tasks[t].pc = "idle"
FreeTask == CHOOSE t \in TaskIds : tasks[t].pc = "idle" /\ \A k \in TaskIds : k < t => tasks[k].pc /= "idle"

\* Controls disabled={isLoading || isStitching}
ControlsDisabled == isLoading \/ isStitching

\* cancelAnimationFrame(animationRef.current); animationRef.current = null
CancelledPending == IF animationRef = "live" THEN rafPending - 1 ELSE rafPending

\* a session has been prepared on the current context: getGainNode() has
\* made its gain node there
Prepared == audioCtxRef /= 0 /\ gainNodeRef.ctx = audioCtxRef

\* the session on the current context has played to its end: the handler of
\* its last source has run, or the clock is past the end of the timeline
PlayedOut ==
  \/ \E i \in DOMAIN sources :
       sources[i].ctx = audioCtxRef /\ sources[i].last /\ sources[i].fired
  \/ Fl(Fl(ctxs[audioCtxRef].time) - timer.startTime) > timer.duration

\* the playback state
PlaybackState ==
  IF isStitching THEN "preparing"
  ELSE IF isPlaying THEN "playing"
  ELSE IF ~Prepared THEN "idle"
  ELSE IF PlayedOut THEN "ended"
  ELSE "paused"

\* getAudioContext(): creates the context when there is none
WithContext(cs, ref) ==
  IF ref = 0 THEN [ctxs |-> Append(cs, NewContext), ref |-> Len(cs) + 1]
  ELSE [ctxs |-> cs, ref |-> ref]

\* audioCtx.currentTime
CurrentTime(cx) == Fl(cx.time)

\* every buffer started at the clock's time
StartTimeNotAdvanced(t0, durs, i) == t0

\* the duration of the last buffer alone
TotalDurationOfLast(durs) == IF durs = <<>> THEN 0 ELSE Last(durs)

\* audioBuffers.reduce((sum, buffer) => sum + buffer.duration, 0)
RECURSIVE TotalDuration(_)
TotalDuration(durs) ==
  IF durs = <<>> THEN 0 ELSE Add(TotalDuration(Front(durs)), Last(durs))

\* the value of startTime when the i-th buffer is started: the clock's time,
\* then startTime += buffer.duration after each buffer
RECURSIVE StartTime(_, _, _)
StartTime(t0, durs, i) ==
  IF i = 1 THEN t0 ELSE Add(StartTime(t0, durs, i - 1), durs[i - 1])

\* the sources the loop of onPlayClick creates and starts on the context cx
Scheduled(cx, t0, durs) ==
  [i \in DOMAIN durs |-> Source(cx, StartTime(t0, durs, i), durs[i], i = Len(durs))]

\* an updatePlaybackTime() that publishes the elapsed time whatever it is
UpdatePlaybackTimeUnchecked(cs, tm, ar, rp, t) ==
  LET elapsedTime == Sub(CurrentTime(cs[audioCtxRef]), tm.startTime)
      stop == elapsedTime > tm.duration
      rejected == Rejects(cs[audioCtxRef])
  IN [stop |-> stop,
      currTime |-> elapsedTime,
      animationRef |-> IF stop THEN ar ELSE "live",
      rafPending |-> IF stop THEN rp ELSE rp + 1,
      ctxs |-> IF stop /\ ~rejected
                 THEN [cs EXCEPT ![audioCtxRef] = Ask(@, "suspend", t)] ELSE cs,
      task |-> IF stop /\ ~rejected
                 THEN Task("tick", "stopping", audioCtxRef, audioCtxRef, <<>>, "none")
                 ELSE IdleTask]

\* updatePlaybackTime() on the contexts cs, the timer tm and the frame
\* requests (ar, rp); when the elapsed time exceeds the duration it calls
\* stopPlayback(), whose continuation is the task t
UpdatePlaybackTime(cs, tm, ar, rp, t) ==
  LET elapsedTime == Sub(CurrentTime(cs[audioCtxRef]), tm.startTime)
      stop == elapsedTime > tm.duration
      rejected == Rejects(cs[audioCtxRef])
  IN [stop |-> stop,
      currTime |-> IF ~stop /\ elapsedTime <= tm.duration /\ elapsedTime >= 0
                     THEN elapsedTime ELSE currTime,
      animationRef |-> IF stop THEN ar ELSE "live",
      rafPending |-> IF stop THEN rp ELSE rp + 1,
      ctxs |-> IF stop /\ ~rejected
                 THEN [cs EXCEPT ![audioCtxRef] = Ask(@, "suspend", t)] ELSE cs,
      task |-> IF stop /\ ~rejected
                 THEN Task("tick", "stopping", audioCtxRef, audioCtxRef, <<>>, "none")
                 ELSE IdleTask]

\* the time at which the rendering of a source ends
EndOf(s) == s.when + s.dur

\* the ended event of the source s is due on the contexts cs
Due(cs, s) == s.last /\ ~s.fired /\ cs[s.ctx].time >= EndOf(s)

\* a closed context that neither audioCtxRef nor a handler in flight nor a
\* pending ended event refers to is garbage, and so are its sources
Garbage(cs, ref, tks, id) ==
  /\ cs[id].state = "closed"
  /\ id /= ref
  /\ \A t \in TaskIds : tks[t].ctx /= id /\ tks[t].waits /= id
  /\ \A i \in DOMAIN sources : sources[i].ctx = id => ~Due(cs, sources[i])

Collected == [state |-> "closed", control |-> "closed", time |-> 0, queue |-> <<>>]

Collect(cs, ref, tks) ==
  [id \in DOMAIN cs |-> IF Garbage(cs, ref, tks, id) THEN Collected ELSE cs[id]]

Reachable(cs, ref, tks) ==
  SelectSeq(sources, LAMBDA s : ~Garbage(cs, ref, tks, s.ctx))

\* the rest of endPlayback after the close: createNewAudioContext(), the
\* resets, and the cancellation of the frame request
EndPlaybackRest(cs, tks) ==
  /\ ctxs' = Collect(Append(cs, NewContext), Len(cs) + 1, tks)
  /\ sources' = Reachable(Append(cs, NewContext), Len(cs) + 1, tks)
  /\ audioCtxRef' = Len(cs) + 1
  /\ timer' = [timer EXCEPT !.duration = 0, !.filesLen = 0, !.startTime = 0]
  /\ currTime' = 0
  /\ duration' = 0
  /\ rafPending' = CancelledPending
  /\ animationRef' = "null"

\* a click on the play button: onPlayClick up to its first await.
\* The context is suspended: await audioCtx.resume()
ClickResume ==
  LET e == WithContext(ctxs, audioCtxRef)
      cx == e.ctxs[e.ref]
      t == FreeTask
  IN
  /\ ~ControlsDisabled
  /\ nClicks < MaxClicks
  /\ HasFreeTask
  /\ cx.state = "suspended"
  /\ audioCtxRef' = e.ref
  /\ IF Rejects(cx)
       THEN ctxs' = e.ctxs /\ UNCHANGED tasks
       ELSE /\ ctxs' = [e.ctxs EXCEPT ![e.ref] = Ask(cx, "resume", t)]
            /\ tasks' = [tasks EXCEPT ![t] =
                           Task("play", "resuming", e.ref, e.ref, <<>>, PlaybackState)]
  /\ nClicks' = nClicks + 1
  /\ UNCHANGED <<gainNodeRef, animationRef, rafPending, timer, isPlaying,
                 currTime, duration, isStitching, sources>>
  /\ UNCHANGED <<storageVars, catalogVars>>

\* isPlaying: await stopPlayback(), which runs up to await audioCtx.suspend()
ClickStop ==
  LET e == WithContext(ctxs, audioCtxRef)
      cx == e.ctxs[e.ref]
      t == FreeTask
  IN
  /\ ~ControlsDisabled
  /\ nClicks < MaxClicks
  /\ HasFreeTask
  /\ cx.state /= "suspended"
  /\ isPlaying
  /\ audioCtxRef' = e.ref
  /\ isPlaying' = FALSE
  /\ IF Rejects(cx)
       THEN ctxs' = e.ctxs /\ UNCHANGED tasks
       ELSE /\ ctxs' = [e.ctxs EXCEPT ![e.ref] = Ask(cx, "suspend", t)]
            /\ tasks' = [tasks EXCEPT ![t] =
                           Task("play", "stopping", e.ref, e.ref, <<>>, PlaybackState)]
  /\ nClicks' = nClicks + 1
  /\ UNCHANGED <<gainNodeRef, animationRef, rafPending, timer,
                 currTime, duration, isStitching, sources>>
  /\ UNCHANGED <<storageVars, catalogVars>>

\* otherwise: await endPlayback(), which awaits the close of a context that
\* is not closed; with a closed context endPlayback runs through, and
\* onPlayClick goes on to setIsStitching(true) and getAllFiles()
ClickPlay ==
  LET e == WithContext(ctxs, audioCtxRef)
      cx == e.ctxs[e.ref]
      t == FreeTask
  IN
  /\ ~ControlsDisabled
  /\ nClicks < MaxClicks
  /\ HasFreeTask
  /\ cx.state /= "suspended"
  /\ ~isPlaying
  /\ isPlaying' = FALSE
  /\ IF cx.state /= "closed"
       THEN /\ audioCtxRef' = e.ref
            /\ IF Rejects(cx)
                 THEN ctxs' = e.ctxs /\ UNCHANGED tasks
                 ELSE /\ ctxs' = [e.ctxs EXCEPT ![e.ref] = Ask(cx, "close", t)]
                      /\ tasks' = [tasks EXCEPT ![t] =
                                     Task("play", "closing", e.ref, e.ref, <<>>, PlaybackState)]
            /\ UNCHANGED <<animationRef, rafPending, timer, currTime, duration, isStitching>>
            /\ UNCHANGED sources
       ELSE /\ tasks' = [tasks EXCEPT ![t] =
                           Task("play", "fetching", Len(e.ctxs) + 1, 0, <<>>, PlaybackState)]
            /\ EndPlaybackRest(e.ctxs, tasks')
            /\ isStitching' = TRUE
  /\ nClicks' = nClicks + 1
  /\ UNCHANGED gainNodeRef
  /\ UNCHANGED <<storageVars, catalogVars>>

\* audioCtx.resume() resolves: setIsPlaying(true); updatePlaybackTime()
Resumed(t) ==
  LET tk == tasks[t]
      cs == [ctxs EXCEPT ![tk.waits] = Complete(@)]
      u == UpdatePlaybackTime(cs, timer, animationRef, rafPending, t)
  IN
  /\ tk.pc = "resuming"
  /\ Awaited(ctxs, tk.waits, "resume", t)
  /\ ctxs' = u.ctxs
  /\ tasks' = [tasks EXCEPT ![t] = u.task]
  /\ isPlaying' = ~u.stop
  /\ currTime' = u.currTime
  /\ animationRef' = u.animationRef
  /\ rafPending' = u.rafPending
  /\ UNCHANGED <<audioCtxRef, gainNodeRef, timer, duration, isStitching, sources, nClicks>>
  /\ UNCHANGED <<storageVars, catalogVars>>

\* audioCtx.suspend() resolves in stopPlayback, called by onPlayClick or by
\* updatePlaybackTime: the frame request is cancelled
Stopped(t) ==
  LET tk == tasks[t] IN
  /\ tk.pc = "stopping"
  /\ Awaited(ctxs, tk.waits, "suspend", t)
  /\ ctxs' = [ctxs EXCEPT ![tk.waits] = Complete(@)]
  /\ tasks' = [tasks EXCEPT ![t] = IdleTask]
  /\ rafPending' = CancelledPending
  /\ animationRef' = "null"
  /\ UNCHANGED <<audioCtxRef, gainNodeRef, timer, isPlaying, currTime, duration,
                 isStitching, sources, nClicks>>
  /\ UNCHANGED <<storageVars, catalogVars>>

\* audioCtxRef.current.close() resolves in the endPlayback of onPlayClick:
\* the rest of endPlayback; audioCtx = getAudioContext(); setIsStitching(true);
\* getAllFiles() is called
Closed(t) ==
  LET tk == tasks[t]
      cs == [ctxs EXCEPT ![tk.waits] = Complete(@)]
  IN
  /\ tk.kind = "play" /\ tk.pc = "closing"
  /\ Awaited(ctxs, tk.waits, "close", t)
  /\ tasks' = [tasks EXCEPT ![t] = [tk EXCEPT !.pc = "fetching", !.ctx = Len(cs) + 1, !.waits = 0]]
  /\ EndPlaybackRest(cs, tasks')
  /\ isStitching' = TRUE
  /\ UNCHANGED <<gainNodeRef, isPlaying, nClicks>>
  /\ UNCHANGED <<storageVars, catalogVars>>

\* getAllFiles() settles: it rejects when the listing of the root does, else
\* playbackTimerRef.filesLen = data.length and the decoding of all buffers
\* starts
Fetched(t) ==
  LET tk == tasks[t] IN
  /\ tk.pc = "fetching"
  /\ IF ~ListNow(fs, PathEmpty).ok
       THEN /\ tasks' = [tasks EXCEPT ![t] = IdleTask]
            /\ UNCHANGED timer
       ELSE \E data \in GetAllFilesResults(fs) :
              /\ tasks' = [tasks EXCEPT ![t] =
                             [tk EXCEPT !.pc = "decoding",
                                        !.data = [i \in DOMAIN data |-> data[i].buffer]]]
              /\ timer' = [timer EXCEPT !.filesLen = Len(data)]
  /\ UNCHANGED <<ctxs, audioCtxRef, gainNodeRef, animationRef, rafPending, isPlaying,
                 currTime, duration, isStitching, sources, nClicks>>
  /\ UNCHANGED <<storageVars, catalogVars>>

\* Promise.all over decodeAudioData settles.  One rejection rejects
\* onPlayClick.  Otherwise the rest of onPlayClick runs: the total duration,
\* the gain node of getGainNode(), the sources, each connected and started,
\* onended on the last, setIsPlaying(true), setIsStitching(false),
\* updatePlaybackTime().  source.connect(gainNode) throws when the gain node
\* belongs to another context than the source
Decoded(t) ==
  LET tk == tasks[t]
      durs == [i \in DOMAIN tk.data |-> DecodedDuration(tk.data[i])]
      totalDuration == TotalDuration(durs)
      startTime == CurrentTime(ctxs[tk.ctx])
      tm == [timer EXCEPT !.duration = totalDuration, !.startTime = startTime]
      u == UpdatePlaybackTime(ctxs, tm, animationRef, rafPending, t)
  IN
  /\ tk.pc = "decoding"
  /\ IF \E i \in DOMAIN tk.data : ~Decodable(tk.data[i])
       THEN /\ tasks' = [tasks EXCEPT ![t] = IdleTask]
            /\ UNCHANGED <<ctxs, gainNodeRef, animationRef, rafPending, timer, isPlaying,
                           currTime, duration, isStitching, sources>>
       ELSE /\ duration' = totalDuration
            /\ timer' = tm
            /\ gainNodeRef' = [ctx |-> audioCtxRef, gain |-> timer.volume]
            /\ IF durs /= <<>> /\ audioCtxRef /= tk.ctx
                 THEN /\ tasks' = [tasks EXCEPT ![t] = IdleTask]
                      /\ UNCHANGED <<ctxs, animationRef, rafPending, isPlaying,
                                     currTime, isStitching, sources>>
                 ELSE /\ sources' = sources \o Scheduled(tk.ctx, startTime, durs)
                      /\ isPlaying' = ~u.stop
                      /\ isStitching' = FALSE
                      /\ ctxs' = u.ctxs
                      /\ tasks' = [tasks EXCEPT ![t] = u.task]
                      /\ currTime' = u.currTime
                      /\ animationRef' = u.animationRef
                      /\ rafPending' = u.rafPending
  /\ UNCHANGED <<audioCtxRef, nClicks>>
  /\ UNCHANGED <<storageVars, catalogVars>>

\* a frame request runs updatePlaybackTime(): the one animationRef holds
\* (tracked) or another one still pending
AnimationFrame ==
  \E tracked \in BOOLEAN :
    LET ar == IF tracked THEN "dead" ELSE animationRef
        t == FreeTask
        u == UpdatePlaybackTime(ctxs, timer, ar, rafPending - 1, t)
    IN
    /\ IF tracked THEN animationRef = "live"
       ELSE rafPending > (IF animationRef = "live" THEN 1 ELSE 0)
    /\ HasFreeTask
    /\ ctxs' = u.ctxs
    /\ tasks' = [tasks EXCEPT ![t] = u.task]
    /\ isPlaying' = IF u.stop THEN FALSE ELSE isPlaying
    /\ currTime' = u.currTime
    /\ animationRef' = u.animationRef
    /\ rafPending' = u.rafPending
    /\ UNCHANGED <<audioCtxRef, gainNodeRef, timer, duration, isStitching, sources, nClicks>>
    /\ UNCHANGED <<storageVars, catalogVars>>

\* an ended event that no handler listens to
EndedIgnored(i) ==
  /\ i \in DOMAIN sources
  /\ Due(ctxs, sources[i])
  /\ sources' = [sources EXCEPT ![i].fired = TRUE]
  /\ UNCHANGED <<ctxs, audioCtxRef, gainNodeRef, animationRef, rafPending, timer,
                 isPlaying, currTime, duration, isStitching, tasks, nClicks>>
  /\ UNCHANGED <<storageVars, catalogVars>>

\* the last source of a session has played to its end: its onended handler
\* runs stopPlayback() up to await audioCtx.suspend()
Ended(i) ==
  LET s == sources[i]
      t == FreeTask
  IN
  /\ i \in DOMAIN sources
  /\ Due(ctxs, s)
  /\ HasFreeTask
  /\ sources' = [sources EXCEPT ![i].fired = TRUE]
  /\ isPlaying' = FALSE
  /\ IF Rejects(ctxs[audioCtxRef])
       THEN UNCHANGED <<ctxs, tasks>>
       ELSE /\ ctxs' = [ctxs EXCEPT ![audioCtxRef] = Ask(@, "suspend", t)]
            /\ tasks' = [tasks EXCEPT ![t] =
                           Task("ended", "suspending", s.ctx, audioCtxRef, <<>>, "none")]
  /\ UNCHANGED <<audioCtxRef, gainNodeRef, animationRef, rafPending, timer,
                 currTime, duration, isStitching, nClicks>>
  /\ UNCHANGED <<storageVars, catalogVars>>

\* stopPlayback() of the onended handler goes on after the suspension and
\* returns; the handler calls audioCtx.close() on the context of its session
EndedSuspended(t) ==
  LET tk == tasks[t]
      cs == [ctxs EXCEPT ![tk.waits] = Complete(@)]
  IN
  /\ tk.kind = "ended" /\ tk.pc = "suspending"
  /\ Awaited(ctxs, tk.waits, "suspend", t)
  /\ rafPending' = CancelledPending
  /\ animationRef' = "null"
  /\ IF Rejects(cs[tk.ctx])
       THEN ctxs' = cs /\ tasks' = [tasks EXCEPT ![t] = IdleTask]
       ELSE /\ ctxs' = [cs EXCEPT ![tk.ctx] = Ask(@, "close", t)]
            /\ tasks' = [tasks EXCEPT ![t] = [tk EXCEPT !.pc = "closing", !.waits = tk.ctx]]
  /\ UNCHANGED <<audioCtxRef, gainNodeRef, timer, isPlaying, currTime, duration,
                 isStitching, sources, nClicks>>
  /\ UNCHANGED <<storageVars, catalogVars>>

\* the close of the onended handler resolves
EndedClosed(t) ==
  LET tk == tasks[t] IN
  /\ tk.kind = "ended" /\ tk.pc = "closing"
  /\ Awaited(ctxs, tk.waits, "close", t)
  /\ ctxs' = [ctxs EXCEPT ![tk.waits] = Complete(@)]
  /\ tasks' = [tasks EXCEPT ![t] = IdleTask]
  /\ UNCHANGED <<audioCtxRef, gainNodeRef, animationRef, rafPending, timer, isPlaying,
                 currTime, duration, isStitching, sources, nClicks>>
  /\ UNCHANGED <<storageVars, catalogVars>>

\* the volume values the slider is moved to
Volumes == {30, 100}

\* a volume change that is stored and not applied to the gain node
HandleVolumeChangeStoredOnly ==
  /\ nClicks < MaxClicks
  /\ \E newVolume \in Volumes : timer' = [timer EXCEPT !.volume = newVolume]
  /\ nClicks' = nClicks + 1
  /\ UNCHANGED <<ctxs, audioCtxRef, gainNodeRef, animationRef, rafPending, isPlaying,
                 currTime, duration, isStitching, sources, tasks>>
  /\ UNCHANGED <<storageVars, catalogVars>>

\* handleVolumeChange(newVolume); the gain is kept in hundredths
HandleVolumeChange ==
  /\ nClicks < MaxClicks
  /\ \E newVolume \in Volumes :
       /\ timer' = [timer EXCEPT !.volume = newVolume]
       /\ gainNodeRef' = IF gainNodeRef.ctx /= 0
                           THEN [gainNodeRef EXCEPT !.gain = newVolume] ELSE gainNodeRef
  /\ nClicks' = nClicks + 1
  /\ UNCHANGED <<ctxs, audioCtxRef, animationRef, rafPending, isPlaying, currTime,
                 duration, isStitching, sources, tasks>>
  /\ UNCHANGED <<storageVars, catalogVars>>

\* the render thread of a running context processes one more quantum
AdvanceClock(id) ==
  /\ id \in DOMAIN ctxs
  /\ ctxs[id].state = "running"
  /\ ctxs[id].time < MaxQuanta * ClockQuantum
  /\ ctxs' = [ctxs EXCEPT ![id].time = @ + ClockQuantum]
  /\ UNCHANGED <<audioCtxRef, gainNodeRef, animationRef, rafPending, timer, isPlaying,
                 currTime, duration, isStitching, sources, tasks, nClicks>>
  /\ UNCHANGED <<storageVars, catalogVars>>

---------------------------------------------------------------------------
(* The catalog under StitchAudio: uploads and deletions as they complete,   *)
(* the reload they cause in the hook, and the effect on folders             *)

\* the payloads uploaded: a lasts 5, b lasts 2 or is not audio
Payloads(name) == IF name = A THEN {<<5>>} ELSE {<<2>>, <<0>>}

\* when folder a and folder b were uploaded
UploadedAt(name) == IF name = A THEN 1 ELSE 0

Sidecar(name) == TextEncoderEncode(JsonStringify(Meta(name, UploadedAt(name))))

\* an upload has saved the payload and the sidecar of a new folder
Uploaded ==
  /\ nClicks < MaxClicks
  /\ StorageUp
  /\ HasFreeLoad(loads)
  /\ \E name \in {A, B} : \E payload \in Payloads(name) :
       LET detail == [type |-> "file-added", path |-> MetadataPath(name)] IN
       /\ ~IsDir(fs, <<name>>)
       /\ fs' = WithFolder(fs, name, payload, Sidecar(name))
       /\ events' = EmitChange(events, detail)
       /\ loads' = Dispatch(loads, detail)
  /\ nClicks' = nClicks + 1
  /\ UNCHANGED <<envContext, envHasOpfs, envGetDirOk, locks, rootDir, context,
                 initPromise, calls, getDirCalls, lastSaved, nCalls>>
  /\ UNCHANGED <<folders, isLoading, error, upload, now, nChanges>>
  /\ UNCHANGED <<ctxs, audioCtxRef, gainNodeRef, animationRef, rafPending, timer,
                 isPlaying, currTime, duration, isStitching, sources, tasks>>

\* a card was clicked and deleteFolder has removed the folder
Deleted ==
  /\ nClicks < MaxClicks
  /\ ~isLoading
  /\ HasFreeLoad(loads)
  /\ \E name \in {A, B} :
       LET r == DeleteDirectoryNow(fs, name)
           detail == [type |-> "directory-deleted", path |-> name]
       IN
       /\ IsDir(fs, <<name>>)
       /\ r.ok
       /\ fs' = r.fs
       /\ events' = EmitChange(events, detail)
       /\ loads' = Dispatch(loads, detail)
  /\ nClicks' = nClicks + 1
  /\ UNCHANGED <<envContext, envHasOpfs, envGetDirOk, locks, rootDir, context,
                 initPromise, calls, getDirCalls, lastSaved, nCalls>>
  /\ UNCHANGED <<folders, isLoading, error, upload, now, nChanges>>
  /\ UNCHANGED <<ctxs, audioCtxRef, gainNodeRef, animationRef, rafPending, timer,
                 isPlaying, currTime, duration, isStitching, sources, tasks>>

\* the name of the error a load on the tree f ends with
LoadError(f) ==
  LET bad == { d \in ListDirectoriesOf(f, Root) : ~LoadMetadata(f, d).ok }
  IN LoadMetadata(f, CHOOSE d \in bad : TRUE).err

\* a loadFolders() of the hook completes; when it has set folders, the effect
\* of StitchAudio on folders runs: endPlayback() unless no file was prepared
\* or the catalog has as many entries as were prepared
FoldersLoaded(l) ==
  LET r == ListNow(fs, PathEmpty)
      t == FreeTask
  IN
  /\ loads[l].pc = "list"
  /\ HasFreeTask
  /\ loads' = [loads EXCEPT ![l] = IdleLoad]
  /\ isLoading' = FALSE
  /\ IF ~r.ok \/ LoadResults(fs) = {}
       THEN /\ error' = IF ~r.ok THEN r.err ELSE LoadError(fs)
            /\ UNCHANGED <<folders, playerVars>>
       ELSE \E fl \in LoadResults(fs) :
              /\ folders' = fl
              /\ error' = "null"
              /\ IF timer.filesLen = 0 \/ Len(fl) = timer.filesLen
                   THEN UNCHANGED playerVars
                   ELSE /\ isPlaying' = FALSE
                        /\ IF audioCtxRef /= 0 /\ ctxs[audioCtxRef].state /= "closed"
                             THEN /\ IF Rejects(ctxs[audioCtxRef])
                                       THEN UNCHANGED <<ctxs, tasks>>
                                       ELSE /\ ctxs' = [ctxs EXCEPT ![audioCtxRef] = Ask(@, "close", t)]
                                            /\ tasks' = [tasks EXCEPT ![t] =
                                                 Task("effect", "closing", audioCtxRef, audioCtxRef, <<>>, "none")]
                                  /\ UNCHANGED <<audioCtxRef, animationRef, rafPending,
                                                 timer, currTime, duration, sources>>
                             ELSE EndPlaybackRest(ctxs, tasks) /\ UNCHANGED tasks
                        /\ UNCHANGED <<gainNodeRef, isStitching, nClicks>>
  /\ UNCHANGED <<storageVars, upload, now, nChanges>>

\* the close awaited by the endPlayback of the effect resolves
EffectClosed(t) ==
  LET tk == tasks[t]
      cs == [ctxs EXCEPT ![tk.waits] = Complete(@)]
  IN
  /\ tk.kind = "effect" /\ tk.pc = "closing"
  /\ Awaited(ctxs, tk.waits, "close", t)
  /\ tasks' = [tasks EXCEPT ![t] = IdleTask]
  /\ EndPlaybackRest(cs, tasks')
  /\ UNCHANGED <<gainNodeRef, isPlaying, isStitching, nClicks>>
  /\ UNCHANGED <<storageVars, catalogVars>>

---------------------------------------------------------------------------
(* The storage engine under arbitrary callers *)

Contexts == {"worker", "window", "unknown"}

StorageFresh ==
  /\ locks = {}
  /\ rootDir = 0
  /\ context = "unknown"
  /\ initPromise = "null"
  /\ calls = [c \in CallIds |-> IdleFrame]
  /\ events = <<>>
  /\ getDirCalls = 0
  /\ lastSaved = <<>>
  /\ nCalls = 0

CatalogFresh ==
  /\ folders = <<>>
  /\ isLoading = TRUE
  /\ error = "null"
  /\ loads = [l \in LoadIds |-> IdleLoad]
  /\ upload = IdleUpload
  /\ now = 0
  /\ nChanges = 0

PlayerFresh ==
  /\ ctxs = <<>>
  /\ audioCtxRef = 0
  /\ gainNodeRef = NoGain
  /\ animationRef = "null"
  /\ rafPending = 0
  /\ timer = InitialTimer
  /\ isPlaying = FALSE
  /\ currTime = 0
  /\ duration = 0
  /\ isStitching = FALSE
  /\ sources = <<>>
  /\ tasks = [t \in TaskIds |-> IdleTask]
  /\ nClicks = 0

InitStorage ==
  /\ envContext \in Contexts
  /\ envHasOpfs \in BOOLEAN
  /\ envGetDirOk \in BOOLEAN
  /\ fs = <<>>
  /\ StorageFresh
  /\ CatalogFresh
  /\ PlayerFresh

StorageStep ==
  \/ GetDirectorySettles
  \/ \E c \in CallIds :
       \/ Call(c)
       \/ EnsureInit(c)
       \/ AwaitInit(c)
       \/ Ready(c)
       \/ Navigate(c)
       \/ List(c)
       \/ DeleteFile(c)
       \/ DeleteDirectory(c)
       \/ SaveGetFileHandle(c)
       \/ SaveOpenSync(c)
       \/ SaveBlobRead(c)
       \/ SaveCreateWritable(c)
       \/ SaveWrite(c)
       \/ SaveClose(c)
       \/ ReadGetFileHandle(c)
       \/ ReadOpenSync(c)
       \/ ReadGetFile(c)
       \/ ReadArrayBuffer(c)
       \/ DetailsGetFileHandle(c)
       \/ DetailsOpenSync(c)
       \/ DetailsGetFile(c)
       \/ Return(c)

NextStorage == StorageStep /\ UNCHANGED <<catalogVars, playerVars>>

SpecStorage == InitStorage /\ [][NextStorage]_vars

---------------------------------------------------------------------------
(* The catalog hook in the window, with uploads and deletions; the store   *)
(* may hold folders from an earlier visit                                  *)

EmptyTree == <<>>
\* b was uploaded at time 0; its sidecar is cut short
BrokenTree == WithFolder(EmptyTree, B, <<3>>, <<123>>)
\* b was uploaded at time 0
GoodTree == WithFolder(EmptyTree, B, <<3>>, TextEncoderEncode(JsonStringify(Meta(B, 0))))

\* the upload of b was cut off after its folder was created
BareTree == Put(EmptyTree, <<B>>, DirEntry)

InitialTrees == {EmptyTree, BrokenTree, GoodTree, BareTree}

InitCatalog ==
  /\ envContext = "window"
  /\ envHasOpfs \in BOOLEAN
  /\ envGetDirOk = TRUE
  /\ fs \in InitialTrees
  /\ StorageFresh
  /\ folders = <<>>
  /\ isLoading = TRUE
  /\ error = "null"
  /\ loads = StartLoad([l \in LoadIds |-> IdleLoad])   \* the mount effect
  /\ upload = IdleUpload
  /\ now = 0
  /\ nChanges = 0
  /\ PlayerFresh

CatalogStep ==
  \/ \E l \in LoadIds : LoadList(l)
  \/ \E l \in LoadIds : LoadRead(l)
  \/ UploadStart
  \/ UploadPayload
  \/ UploadSidecar
  \/ DeleteFolder
  \/ Tick

NextCatalog == CatalogStep /\ UNCHANGED playerVars

SpecCatalog == InitCatalog /\ [][NextCatalog]_vars

---------------------------------------------------------------------------
(* The playback scheduler in the window, over a catalog that changes        *)

\* the store as earlier visits may have left it: empty, or with a and b
PlayerTrees ==
  { EmptyTree,
    WithFolder(WithFolder(EmptyTree, A, <<5>>, Sidecar(A)), B, <<2>>, Sidecar(B)) }

InitPlayer ==
  /\ envContext = "window"
  /\ envHasOpfs = TRUE
  /\ envGetDirOk = TRUE
  /\ fs \in PlayerTrees
  /\ StorageFresh
  /\ folders \in LoadResults(fs)      \* the load of the mount effect is over
  /\ isLoading = FALSE
  /\ error = "null"
  /\ loads = [l \in LoadIds |-> IdleLoad]
  /\ upload = IdleUpload
  /\ now = 0
  /\ nChanges = 0
  /\ PlayerFresh

NextPlayer ==
  \/ ClickResume
  \/ ClickStop
  \/ ClickPlay
  \/ \E t \in TaskIds : Resumed(t)
  \/ \E t \in TaskIds : Stopped(t)
  \/ \E t \in TaskIds : Closed(t)
  \/ \E t \in TaskIds : Fetched(t)
  \/ \E t \in TaskIds : Decoded(t)
  \/ AnimationFrame
  \/ \E i \in DOMAIN sources : Ended(i)
  \/ \E t \in TaskIds : EndedSuspended(t)
  \/ \E t \in TaskIds : EndedClosed(t)
  \/ HandleVolumeChange
  \/ \E id \in DOMAIN ctxs : AdvanceClock(id)
  \/ Uploaded
  \/ Deleted
  \/ \E l \in LoadIds : FoldersLoaded(l)
  \/ \E t \in TaskIds : EffectClosed(t)

SpecPlayer == InitPlayer /\ [][NextPlayer]_vars

\* the event loop runs the tasks queued on it: a frame request that is
\* pending is run, an ended event that is due is dispatched
PlayerFairness ==
  /\ WF_vars(AnimationFrame)
  /\ WF_vars(\E i \in DOMAIN sources : Ended(i))

\* the scheduler when one of the MaxClicks user actions has been spent
InitPlayerFair ==
  /\ envContext = "window"
  /\ envHasOpfs = TRUE
  /\ envGetDirOk = TRUE
  /\ fs \in PlayerTrees
  /\ StorageFresh
  /\ folders \in LoadResults(fs)
  /\ isLoading = FALSE
  /\ error = "null"
  /\ loads = [l \in LoadIds |-> IdleLoad]
  /\ upload = IdleUpload
  /\ now = 0
  /\ nChanges = 0
  /\ ctxs = <<>>
  /\ audioCtxRef = 0
  /\ gainNodeRef = NoGain
  /\ animationRef = "null"
  /\ rafPending = 0
  /\ timer = InitialTimer
  /\ isPlaying = FALSE
  /\ currTime = 0
  /\ duration = 0
  /\ isStitching = FALSE
  /\ sources = <<>>
  /\ tasks = [t \in TaskIds |-> IdleTask]
  /\ nClicks = 1

SpecPlayerFair == InitPlayerFair /\ [][NextPlayer]_vars /\ PlayerFairness

---------------------------------------------------------------------------
(* The transport controls over a catalog that does not change               *)

\* the scheduler over the store with a and b, with one user action more than
\* MaxClicks to spend
InitTransport ==
  /\ envContext = "window"
  /\ envHasOpfs = TRUE
  /\ envGetDirOk = TRUE
  /\ fs = WithFolder(WithFolder(EmptyTree, A, <<5>>, Sidecar(A)), B, <<2>>, Sidecar(B))
  /\ StorageFresh
  /\ folders \in LoadResults(fs)
  /\ isLoading = FALSE
  /\ error = "null"
  /\ loads = [l \in LoadIds |-> IdleLoad]
  /\ upload = IdleUpload
  /\ now = 0
  /\ nChanges = 0
  /\ ctxs = <<>>
  /\ audioCtxRef = 0
  /\ gainNodeRef = NoGain
  /\ animationRef = "null"
  /\ rafPending = 0
  /\ timer = InitialTimer
  /\ isPlaying = FALSE
  /\ currTime = 0
  /\ duration = 0
  /\ isStitching = FALSE
  /\ sources = <<>>
  /\ tasks = [t \in TaskIds |-> IdleTask]
  /\ nClicks = 0 - 1

NextTransport ==
  \/ ClickResume
  \/ ClickStop
  \/ ClickPlay
  \/ \E t \in TaskIds : Resumed(t)
  \/ \E t \in TaskIds : Stopped(t)
  \/ \E t \in TaskIds : Closed(t)
  \/ \E t \in TaskIds : Fetched(t)
  \/ \E t \in TaskIds : Decoded(t)
  \/ AnimationFrame
  \/ \E i \in DOMAIN sources : Ended(i)
  \/ \E t \in TaskIds : EndedSuspended(t)
  \/ \E t \in TaskIds : EndedClosed(t)
  \/ \E id \in DOMAIN ctxs : AdvanceClock(id)

SpecTransport == InitTransport /\ [][NextTransport]_vars
---------------------------------------------------------------------------
(* Properties of the storage engine *)

Completes(c, o) ==
  calls[c].pc \notin {"done", "idle"} /\ calls'[c].pc = "done" /\ calls'[c].op = o

\* the immediate children of dir that are of the given kind
Children(f, dir, kind) ==
  { Last(q) : q \in {r \in DOMAIN f : r /= Root /\ Front(r) = dir /\ f[r].kind = kind} }

\* C1: a file that a completed saveFile wrote holds exactly the bytes of that
\* call's payload, whatever it held before (nothing of longer old content is
\* left), and a readFile that completes on it returns exactly those bytes; in
\* the worker and in the window context, for every payload kind.
SavedContentIsPayload ==
  \A p \in DOMAIN lastSaved : IsFile(fs, p) /\ fs[p].data = lastSaved[p].bytes

ReadReturnsSaved ==
  \A c \in CallIds :
    (Completes(c, "read") /\ calls'[c].file \in DOMAIN lastSaved)
      => calls'[c].result = lastSaved[calls'[c].file].bytes

C1_RoundTrip == []SavedContentIsPayload /\ [][ReadReturnsSaved]_vars

\* a read in the worker has returned a payload that replaced longer content
C1_Witness ==
  \E c \in CallIds :
    /\ context = "worker"
    /\ calls[c].pc = "done" /\ calls[c].op = "read"
    /\ calls[c].file \in DOMAIN lastSaved
    /\ calls[c].result = lastSaved[calls[c].file].bytes
    /\ lastSaved[calls[c].file].old > Len(calls[c].result)
    /\ Len(calls[c].result) > 0

\* C2: when saveFile(p/f) completes, p is among the directories of the root and
\* f among the files of its folder; when deleteDirectory(p) completes, p is not
\* among the directories of its parent; a listing that completes returns exactly
\* the immediate children of the right kind.
ListingConsistent ==
  \A c \in CallIds :
    LET parts == Parts(calls'[c].path) IN
    /\ Completes(c, "save") =>
         /\ Last(parts) \in Children(fs', Front(parts), "file")
         /\ Len(parts) >= 2 => parts[1] \in Children(fs', Root, "directory")
         /\ \A i \in 1..(Len(parts) - 1) : IsDir(fs', SubSeq(parts, 1, i))
    /\ Completes(c, "delDir") =>
         Last(parts) \notin Children(fs', Front(parts), "directory")
    /\ Completes(c, "listDirs") => calls'[c].names = Children(fs', parts, "directory")
    /\ Completes(c, "listFiles") => calls'[c].names = Children(fs', parts, "file")

C2_ListingConsistency == [][ListingConsistent]_vars

\* listDirectories() has returned the one top-level folder, which holds a
\* subfolder and a file that are not listed
C2_Witness ==
  \E c \in CallIds :
    /\ calls[c].pc = "done" /\ calls[c].op = "listDirs" /\ calls[c].path = PathEmpty
    /\ calls[c].names = {<<"a">>}
    /\ IsDir(fs, <<<<"a">>, <<"b">>>>)
    /\ IsFile(fs, <<<<"a">>, <<"b">>, <<"f">>>>)

ChangeKind(o) ==
  CASE o = "save" -> "file-added"
    [] o = "delFile" -> "file-deleted"
    [] o = "delDir" -> "directory-deleted"

Mutators == {"save", "delFile", "delDir"}

\* C3 as claimed: in the worker as in the window context, every saveFile,
\* deleteFile and deleteDirectory that completes publishes exactly one change
\* event, of its kind, carrying the path passed to it.
PublishesInEveryContext ==
  \A c \in CallIds : \A o \in Mutators :
    Completes(c, o) =>
      events' = Append(events, [type |-> ChangeKind(o), path |-> calls'[c].path])

PublishesInWindowOnly ==
  /\ \A c \in CallIds : \A o \in Mutators :
       Completes(c, o) =>
         IF envContext = "window"
           THEN events' = Append(events, [type |-> ChangeKind(o), path |-> calls'[c].path])
           ELSE events' = events
  /\ events' /= events => \E c \in CallIds : \E o \in Mutators : Completes(c, o)

C4_RootAcquiredOnce ==
  /\ getDirCalls <= 1
  /\ rootDir \in {0, 1}
  /\ \A c \in CallIds : calls[c].root /= 0 => calls[c].root = rootDir /\ getDirCalls = 1

\* two calls that both waited for the same initialization, now finished
C4_Witness ==
  /\ getDirCalls = 1 /\ initPromise = "fulfilled"
  /\ \A c \in CallIds : calls[c].pc = "awaitInit"


\* the call c takes a step: its frame changes in more than the record of
\* the saves that began while it was under way
Steps(c) == [calls'[c] EXCEPT !.quiet = calls[c].quiet] /= calls[c]

\* C17: readFile(path) fails, returning no data, when a directory segment of
\* the path or the leaf file is missing; failing or not, it leaves the storage
\* tree as it is (no directory or file is created) and publishes no event
ReadOnlyReads ==
  \A c \in CallIds :
    (calls[c].op = "read" /\ Steps(c)) =>
      /\ fs' = fs
      /\ events' = events
      /\ (calls[c].pc = "navigate" /\ ~IsDir(fs, Append(calls[c].dirHandle, Head(calls[c].parts))))
           => calls'[c].pc = "failed"
      /\ (calls[c].pc = "leaf" /\ ~IsFile(fs, Append(calls[c].dirHandle, calls[c].fileName)))
           => calls'[c].pc = "failed"
      /\ calls'[c].pc = "failed" => calls'[c].result = <<>>
      /\ Completes(c, "read") => IsFile(fs, Parts(calls[c].path))

C17_ReadOnlyReads == [][ReadOnlyReads]_vars

\* a read of a/b/f has failed on the missing folder b of the existing folder a
C17_Witness ==
  \E c \in CallIds :
    /\ calls[c].op = "read"
    /\ calls[c].path = PathABF
    /\ calls[c].pc = "failed"
    /\ calls[c].err = "NotFoundError"
    /\ IsDir(fs, Parts(PathA))
    /\ ~IsDir(fs, Front(Parts(PathABF)))

\* the file the call c names, as a path of the tree
NamedFile(c) == Parts(calls[c].path)

\* the path of the call c names an existing file
NamedIsFile(c) == NamedFile(c) /= <<>> /\ IsFile(fs, NamedFile(c))

\* the answer of the getFileDetails call c for an existing file
AnswersSize(c) ==
  /\ calls'[c].exists
  /\ calls'[c].size = Len(fs[NamedFile(c)].data)
  /\ NamedFile(c) \in DOMAIN lastSaved => calls'[c].size = Len(lastSaved[NamedFile(c)].bytes)

AnswersNoFile(c) == ~calls'[c].exists /\ calls'[c].size = 0

\* C18 as claimed: getFileDetails(path) never fails and never changes the
\* storage; it answers exists:true with the byte length of the content last
\* saved for every existing file, and {exists:false, size:0} in all other cases
DetailsOfEveryFile ==
  \A c \in CallIds :
    (calls[c].op = "details" /\ Steps(c)) =>
      /\ fs' = fs /\ events' = events /\ locks' = locks
      /\ calls'[c].pc /= "failed"
      /\ Completes(c, "details") =>
           IF NamedIsFile(c) THEN AnswersSize(c) ELSE AnswersNoFile(c)

HeldOpen(c) == context = "worker" /\ ~CanLock(locks, NamedFile(c), "exclusive")

\* C18 amended: getFileDetails(path) never fails and never changes the
\* storage; on a failed initialization, a missing segment, an empty path or a
\* path naming a directory it answers {exists:false, size:0}; for an existing
\* file it answers exists:true with the byte length of the content last saved
\* there, except in a worker while another call holds the file open with a
\* sync access handle: then it answers {exists:false, size:0} as well
DetailsOfFilesNotHeld ==
  \A c \in CallIds :
    (calls[c].op = "details" /\ Steps(c)) =>
      /\ fs' = fs /\ events' = events /\ locks' = locks
      /\ calls'[c].pc /= "failed"
      /\ Completes(c, "details") =>
           IF NamedIsFile(c) /\ ~HeldOpen(c) THEN AnswersSize(c) ELSE AnswersNoFile(c)

NoLeafName(c) ==
  /\ calls[c].op \in {"save", "read", "delFile", "delDir"}
  /\ Parts(calls[c].path) = <<>>

\* C19: saveFile, readFile, deleteFile and deleteDirectory called with a path
\* that has no leaf name fail with an error, leave the storage tree unchanged
\* and publish no change event; no storage call that fails publishes a change
\* event: an event is published only in the step in which a call completes
NoLeafNameFails ==
  /\ \A c \in CallIds :
       (NoLeafName(c) /\ Steps(c)) =>
         /\ fs' = fs
         /\ events' = events
         /\ calls'[c].pc /= "done"
         /\ calls[c].pc = "ready" =>
              /\ calls'[c].pc = "failed"
              /\ rootDir /= 0 =>
                   calls'[c].err = IF calls[c].op = "delDir" THEN "Invalid directory path"
                                   ELSE "Invalid file path"
  /\ \A c \in CallIds : (Steps(c) /\ calls'[c].pc = "failed") => events' = events
  /\ events' /= events =>
       \E c \in CallIds : calls[c].pc \notin {"done", "failed", "idle"} /\ calls'[c].pc = "done"

C19_NoLeafNameFails == [][NoLeafNameFails]_vars

\* a deleteDirectory of "/" has failed on the path, in a window whose storage
\* holds entries and has published events
C19_Witness ==
  \E c \in CallIds :
    /\ calls[c].op = "delDir"
    /\ calls[c].path = PathNone
    /\ calls[c].pc = "failed"
    /\ calls[c].err = "Invalid directory path"
    /\ fs /= <<>>
    /\ events /= <<>>

\* the initialization has failed: the execution context is unsupported, the
\* platform has no getDirectory, or getDirectory() rejected
InitFailed == initPromise = "rejected"

\* the methods that throw what _ensureInit throws
Throwing == {"save", "read", "listDirs", "listFiles", "delFile", "delDir"}

\* after a failed initialization there is no root, nothing has been stored or
\* published, and no call has got past _ensureInit
NothingAfterInitFailed ==
  InitFailed =>
    /\ rootDir = 0
    /\ fs = <<>>
    /\ events = <<>>
    /\ getDirCalls <= 1
    /\ \A c \in CallIds :
         calls[c].op \in Throwing => calls[c].pc \in {"start", "awaitInit", "failed"}

\* a failed initialization stays failed, getDirectory is not invoked again,
\* and a call that awaits it fails in its next step
InitFailedStays ==
  InitFailed =>
    /\ initPromise' = "rejected"
    /\ getDirCalls' = getDirCalls
    /\ \A c \in CallIds :
         (calls[c].op \in Throwing /\ Steps(c)) =>
           /\ calls[c].pc = "start" => calls'[c].pc = "awaitInit"
           /\ calls[c].pc = "awaitInit" =>
                calls'[c].pc = "failed" /\ calls'[c].err = "InitializationError"

\* C20: if the initialization fails, the call that triggered it fails, and
\* every later saveFile, readFile, listDirectories, listFiles, deleteFile and
\* deleteDirectory call fails too, without getDirectory being invoked again;
\* no change event is ever published
C20_InitFailureIsFinal == []NothingAfterInitFailed /\ [][InitFailedStays]_vars

\* getDirectory() rejected once; two calls have failed on it, one of them
\* started after an earlier call had failed and returned
C20_Witness ==
  /\ InitFailed
  /\ getDirCalls = 1
  /\ nCalls = 3
  /\ \A c \in CallIds :
       /\ calls[c].op \in Throwing
       /\ calls[c].pc = "failed"
       /\ calls[c].err = "InitializationError"

\* a payload saveFile accepts and can read
Supported(d) == d.type \in {"string", "buffer", "view", "blob"} /\ d.readable

\* no deletion has removed the directory or the file the call c holds
Undisturbed(c) ==
  /\ IsDir(fs, calls[c].dirHandle)
  /\ calls[c].pc \in {"openSync", "blobRead", "createWritable", "write", "close"}
       => IsFile(fs, calls[c].file)

\* the saveFile of the call c is under way on an initialized storage while
\* another saveFile to the same path is under way too
Overlapping(c) ==
  /\ Saving(calls[c]) /\ Supported(calls[c].data)
  /\ rootDir /= 0
  /\ NamedFile(c) /= <<>>
  /\ Undisturbed(c)
  /\ \E d \in CallIds \ {c} :
       /\ Saving(calls[d]) /\ Supported(calls[d].data)
       /\ NamedFile(d) = NamedFile(c)

OverlappingSavesSucceed ==
  \A c \in CallIds : (Overlapping(c) /\ Steps(c)) => calls'[c].pc /= "failed"

\* the readFile of the call c began after the saves of its file were over,
\* and no save has begun since
LaterRead(c) ==
  /\ calls[c].op = "read"
  /\ calls[c].quiet
  /\ NamedFile(c) \in DOMAIN lastSaved

LaterReadsWhole ==
  \A c \in CallIds :
    (LaterRead(c) /\ Steps(c)) =>
      /\ calls'[c].pc /= "failed"
      /\ Completes(c, "read") => calls'[c].result = lastSaved[NamedFile(c)].bytes

\* C24 as claimed: two saveFile calls to one path that overlap in time both
\* complete, and every later readFile of the path returns the whole payload
\* of one of the two, never a mixture and never an error, in the worker as in
\* the window
C24_Claimed == [][OverlappingSavesSucceed /\ LaterReadsWhole]_vars

\* the call c is under way
InFlight(c) == calls[c].pc \notin {"idle", "done", "failed"}

\* worker: every sync access handle that is open belongs to a saveFile that is
\* under way on that file; a call that has returned or failed holds none
NoHandleLeft ==
  context = "worker" =>
    \A l \in locks :
      /\ l.mode = "exclusive"
      /\ calls[l.owner].op = "save"
      /\ InFlight(l.owner)
      /\ calls[l.owner].file = l.path

\* worker: a call is refused the handle of a file only while a saveFile under
\* way holds it open
RefusedOnlyWhileHeld ==
  \A c \in CallIds :
    (context = "worker" /\ Steps(c) /\ calls'[c].err = "NoModificationAllowedError") =>
      \E d \in CallIds \ {c} :
        Saving(calls[d]) /\ Holds(d, calls[d].file, "exclusive") \in locks

\* C25: in the worker every sync access handle saveFile, readFile or
\* getFileDetails opens is closed before the call returns or fails, on every
\* exit path; after completed calls no handle is left open, and no call is
\* blocked by a handle that a finished call left behind
C25_HandlesClosed == []NoHandleLeft /\ [][RefusedOnlyWhileHeld]_vars

\* worker: a save of a Blob has failed on the read of the Blob, and a readFile
\* of the same file that began afterwards has completed; no handle is open
C25_Witness ==
  /\ context = "worker"
  /\ locks = {}
  /\ \E c, d \in CallIds :
       /\ calls[c].op = "save" /\ calls[c].pc = "failed"
       /\ calls[c].err = "NotReadableError"
       /\ calls[d].op = "read" /\ calls[d].pc = "done" /\ calls[d].quiet
       /\ calls[d].path = calls[c].path
---------------------------------------------------------------------------
(* Properties of the catalog hook *)

LoadSettles(l) == loads[l].pc /= "idle" /\ loads'[l].pc = "idle"

\* the load listed the top-level directories successfully
ListingSucceeded(l) == loads[l].pc = "reads" \/ (loads[l].pc = "list" /\ ListNow(fs, PathEmpty).ok)

FolderNames(fl) == { fl[i].name : i \in DOMAIN fl }

\* C5 as claimed: when the directory listing succeeds the load does not fail;
\* a folder whose metadata.json is missing, unreadable or not valid JSON is
\* left out, and the catalog is set to the entries of all the other folders.
LoadSkipsBadSidecars ==
  \A l \in LoadIds :
    (LoadSettles(l) /\ ListingSucceeded(l)) =>
      /\ error' = "null"
      /\ FolderNames(folders') =
           { loads[l].dirs[i] : i \in {j \in DOMAIN loads[l].dirs :
                                          LoadMetadata(fs, loads[l].dirs[j]).ok} }

C5_Claimed == [][LoadSkipsBadSidecars]_vars

\* s is in descending order of uploadedAt
SortedDesc(s) == \A i, j \in DOMAIN s : i < j => s[i].uploadedAt >= s[j].uploadedAt

\* the place of the folder name in the listing order
PlaceIn(order, name) == CHOOSE i \in DOMAIN order : order[i] = name

\* entries of s with equal uploadedAt are in the order of the listing
KeepsListingOrder(s, names, order) ==
  \A i, j \in DOMAIN s :
    (i < j /\ s[i].uploadedAt = s[j].uploadedAt)
      => PlaceIn(order, names[i]) < PlaceIn(order, names[j])

\* the load l sets the catalog in this step
LoadSetsFolders(l) == LoadSettles(l) /\ loads[l].pc = "reads" /\ error' = "null"

LoadSorted ==
  \A l \in LoadIds :
    LoadSetsFolders(l) =>
      /\ Len(folders') = Len(loads[l].dirs)
      /\ FolderNames(folders') = { loads[l].dirs[i] : i \in DOMAIN loads[l].dirs }
      /\ SortedDesc(folders')
      /\ KeepsListingOrder(folders', [i \in DOMAIN folders' |-> folders'[i].name],
                           loads[l].dirs)

GetAllFilesSorted ==
  \A order \in Orders(PairedFolders(fs)) :
    \A data \in GetAllFilesListed(fs, order) :
      LET names == [i \in DOMAIN data |-> data[i].metadata.name] IN
      /\ Len(data) = Len(order)
      /\ { names[i] : i \in DOMAIN data } = PairedFolders(fs)
      /\ SortedDesc(data)
      /\ KeepsListingOrder(data, names, order)

\* C14: load() and getAllFiles() return their entries sorted by uploadedAt
\* descending, entries with equal uploadedAt in the order of the directory
\* listing; getAllFiles() takes its entries from the folders the storage
\* holds, whatever the in-memory catalog holds
C14_Sorted == [][LoadSorted]_vars /\ []GetAllFilesSorted

\* a load has set a catalog of two entries uploaded at the same time, while
\* getAllFiles() has two pairs to return
C14_Witness ==
  /\ Len(folders) = 2
  /\ folders[1].uploadedAt = folders[2].uploadedAt
  /\ Cardinality(PairedFolders(fs)) = 2

\* the folder d holds a sidecar that reads and parses
HasSidecar(f, d) ==
  /\ IsFile(f, <<d, META>>)
  /\ JsonParse(TextDecoderDecode(f[<<d, META>>].data)).ok

\* the files of the folder d other than the sidecar
PayloadsIn(f, d) == Children(f, <<d>>, "file") \ {META}

\* the folders that hold a sidecar that parses and a payload
Usable(f) ==
  { d \in Children(f, Root, "directory") : HasSidecar(f, d) /\ PayloadsIn(f, d) /= {} }

\* C15: when the top-level listing succeeds getAllFiles() returns: a folder
\* whose sidecar is missing or does not parse, or which holds no file besides
\* the sidecar, is dropped, and for every other folder the pair of its parsed
\* sidecar and the bytes of its payload is returned
GetAllFilesDropsBad ==
  ListNow(fs, PathEmpty).ok =>
    /\ GetAllFilesResults(fs) /= {}
    /\ \A data \in GetAllFilesResults(fs) :
         /\ Len(data) = Cardinality(Usable(fs))
         /\ \A d \in Usable(fs) :
              \E i \in DOMAIN data :
                /\ data[i].metadata = JsonParse(TextDecoderDecode(fs[<<d, META>>].data)).value
                /\ \E n \in PayloadsIn(fs, d) : data[i].buffer = fs[<<d, n>>].data

UploadCompletes == upload.pc = "sidecar" /\ upload'.pc = "idle" /\ fs' /= fs

\* C16 as claimed: after uploads and deletions every folder an upload has
\* written holds exactly one metadata.json and exactly one payload file, and
\* no two entries of the catalog have the same folder name
OnePayloadPerFolder ==
  /\ UploadCompletes =>
       LET d == GetAudioFolderName(upload.file) IN
       /\ IsFile(fs', <<d, META>>)
       /\ Cardinality(PayloadsIn(fs', d)) = 1
  /\ Cardinality(FolderNames(folders')) = Len(folders')

C16_Claimed == [][OnePayloadPerFolder]_vars

\* every change has been delivered and every reload has finished
Quiescent == upload.pc = "idle" /\ \A l \in LoadIds : loads[l].pc = "idle"

\* the top-level folders whose sidecar reads and parses
ReadableFolders(f) == { d \in ListDirectoriesOf(f, Root) : LoadMetadata(f, d).ok }

\* the catalog holds exactly the parsed sidecars of the readable folders
CatalogMatches ==
  /\ Len(folders) = Cardinality(ReadableFolders(fs))
  /\ \A d \in ReadableFolders(fs) :
       \E i \in DOMAIN folders : folders[i] = LoadMetadata(fs, d).value

\* C21 as claimed: after uploads and deletions, once every change event has
\* been delivered and every reload it started has finished, the catalog holds
\* exactly the top-level folders that are in the storage and have a readable
\* sidecar: the result of a stale reload is never the final one
C21_Claimed == (StorageUp /\ events /= <<>> /\ Quiescent) => CatalogMatches


\* the kinds of change event
ChangeKinds == {"file-added", "directory-added", "file-deleted", "directory-deleted"}

\* the loads that start in this step
Starting == { l \in LoadIds : loads[l].pc = "idle" /\ loads'[l].pc = "list" }

\* a change event is delivered to the listener in this step
Delivered == Len(events') = Len(events) + 1

\* a delivered event starts exactly one load and touches no load in flight
EventStartsReload ==
  Delivered =>
    /\ Cardinality(Starting) = 1
    /\ \A l \in LoadIds \ Starting : loads'[l] = loads[l]

\* no load starts without an event
ReloadNeedsEvent == Starting /= {} => Delivered

\* the handler starts a load for every kind of event, whatever is in flight
EveryKindReloads ==
  HasFreeLoad(loads) =>
    \A k \in ChangeKinds :
      LET ls == HandleOpfsChange(loads, [type |-> k, path |-> A]) IN
      /\ ls = StartLoad(loads)
      /\ Cardinality({ l \in LoadIds : ls[l].pc = "list" /\ loads[l].pc = "idle" }) = 1
      /\ \A l \in LoadIds : loads[l].pc /= "idle" => ls[l] = loads[l]

\* a load is full: after the listing it reads the sidecar of every directory
\* listed, and it sets the catalog only when the last of them has been read
ReloadIsFull ==
  \A l \in LoadIds :
    /\ (loads[l].pc = "list" /\ loads'[l].pc = "reads") =>
         /\ { loads'[l].dirs[i] : i \in DOMAIN loads'[l].dirs } = ListDirectoriesOf(fs, Root)
         /\ loads'[l].todo = DOMAIN loads'[l].dirs
    /\ (loads[l].pc = "reads" /\ loads'[l].pc = "idle" /\ folders' /= folders) =>
         Cardinality(loads[l].todo) = 1
    /\ (loads[l].pc = "list" /\ loads'[l].pc = "idle" /\ folders' /= folders) =>
         (ListNow(fs, PathEmpty).ok /\ ListDirectoriesOf(fs, Root) = {})

\* C29: every change event delivered to the catalog, of any of the four kinds,
\* starts one full reload, the listing and the reads of all sidecars, also
\* while an earlier reload is in flight, so that k events start exactly k
\* reloads; no reload starts without an event or the initial mount
C29_EveryEventReloads ==
  /\ []EveryKindReloads
  /\ [][EventStartsReload /\ ReloadNeedsEvent /\ ReloadIsFull]_vars

\* an event was delivered while a reload was in flight: two reloads are in
\* flight at once, one of them reading sidecars
C29_Witness ==
  /\ events /= <<>>
  /\ \A l \in LoadIds : loads[l].pc /= "idle"
  /\ \E l \in LoadIds : loads[l].pc = "reads"

\* the path string of an entry: its names joined by "/"
RECURSIVE JoinPath(_)
JoinPath(q) ==
  IF q = <<>> THEN <<>>
  ELSE IF Len(q) = 1 THEN q[1]
  ELSE q[1] \o <<SEP>> \o JoinPath(Tail(q))

\* deleteDirectory(p) completes in this step, in a call of the storage engine
\* or in the deleteFolder of the catalog
DirectoryDeleted(p) ==
  \/ \E c \in CallIds :
       /\ calls[c].op = "delDir" /\ calls[c].pc = "leaf" /\ calls'[c].pc = "done"
       /\ p = Append(calls[c].dirHandle, calls[c].fileName)
  \/ /\ Len(events') = Len(events) + 1
     /\ events'[Len(events')].type = "directory-deleted"
     /\ p = Parts(events'[Len(events')].path)

\* p and everything beneath it is gone, getFileDetails finds nothing there,
\* and every other entry is as it was
RemovedWithAllBeneath(p) ==
  /\ p \in DOMAIN fs
  /\ DOMAIN fs' = { q \in DOMAIN fs : ~IsPrefix(p, q) }
  /\ \A q \in DOMAIN fs' : fs'[q] = fs[q]
  /\ \A q \in DOMAIN fs :
       IsPrefix(p, q) => (StorageUp => ~GetFileDetailsNow(fs', JoinPath(q)).exists)
  /\ \A q \in DOMAIN fs' :
       StorageUp => GetFileDetailsNow(fs', JoinPath(q)) = GetFileDetailsNow(fs, JoinPath(q))

DeleteRemovesTree ==
  \A p \in DOMAIN fs \cup {Root} : DirectoryDeleted(p) => RemovedWithAllBeneath(p)

\* deleteFolder() runs in this step
DeleteFolderRuns == nChanges' = nChanges + 1 /\ upload.pc = "idle" /\ upload' = upload

\* deleteFolder leaves the catalog as it is: when the directory was deleted
\* it starts one reload through the event, and when not, none
DeleteFolderIndirect ==
  DeleteFolderRuns =>
    /\ folders' = folders /\ error' = error /\ isLoading' = isLoading
    /\ IF fs' /= fs
         THEN /\ \E p \in DOMAIN fs : DirectoryDeleted(p)
              /\ Cardinality(Starting) = 1
         ELSE Starting = {} /\ events' = events

\* the catalog changes only when a load settles
CatalogChangesByReload ==
  folders' /= folders => \E l \in LoadIds : LoadSettles(l)

\* C30: deleteDirectory(p) removes p with every file and directory beneath it,
\* so that getFileDetails afterwards reports every path under p absent, and
\* leaves every entry outside p unchanged; deleteFolder(id) changes the
\* in-memory catalog only through the reload its directory-deleted event
\* starts, never directly
C30_DeleteDirectory ==
  [][DeleteRemovesTree /\ DeleteFolderIndirect /\ CatalogChangesByReload]_vars

\* a folder of the catalog has been deleted with its payload and sidecar, the
\* catalog still lists it, and the reload the event started is in flight
C30_Witness ==
  /\ events /= <<>>
  /\ events[Len(events)].type = "directory-deleted"
  /\ \E i \in DOMAIN folders :
       /\ folders[i].name = events[Len(events)].path
       /\ \A q \in DOMAIN fs : ~IsPrefix(<<folders[i].name>>, q)
  /\ DOMAIN fs /= {}
  /\ \E l \in LoadIds : loads[l].pc = "list"
---------------------------------------------------------------------------
(* Properties of the playback scheduler                                   *)

\* the durations decodeAudioData gives for the payloads the task t holds
Durations(t) == [i \in DOMAIN tasks[t].data |-> DecodedDuration(tasks[t].data[i])]

\* the step in which the preparation of the task t fails on a payload that
\* cannot be decoded
DecodeFails(t) ==
  /\ tasks[t].pc = "decoding"
  /\ tasks'[t].pc /= "decoding"
  /\ \E i \in DOMAIN tasks[t].data : ~Decodable(tasks[t].data[i])

\* C6 as claimed: when the decoding of a payload fails during preparation, no
\* buffer is scheduled and the scheduler is idle again: not playing, no longer
\* preparing, the transport control enabled
DecodeFailureReturnsToIdle ==
  \A t \in TaskIds :
    DecodeFails(t) =>
      /\ sources' = sources
      /\ ~isPlaying'
      /\ ~isStitching'
      /\ ~ControlsDisabled'

C6_Claimed == [][DecodeFailureReturnsToIdle]_vars

\* the changes of the playback state the scheduler is claimed to make, taking
\* end() followed by the start of a preparation as one change, and the end of
\* a session that the polling loop has stopped as an end
StateChanges ==
  { <<"idle", "preparing">>, <<"preparing", "playing">>, <<"playing", "paused">>,
    <<"paused", "playing">>, <<"playing", "ended">>, <<"ended", "idle">>,
    <<"ended", "preparing">>, <<"paused", "ended">> }

\* end() has run to its end in this step: a fresh context is current
Reset == audioCtxRef' /= audioCtxRef

\* C7 as claimed: the playback state changes only along the claimed changes
\* or by the reset to idle of end(); playing is not entered from idle or ended,
\* preparing is not entered from playing or paused
StateMachine ==
  \/ PlaybackState' = PlaybackState
  \/ <<PlaybackState, PlaybackState'>> \in StateChanges
  \/ Reset /\ PlaybackState' = "idle"

C7_Claimed == [][StateMachine]_vars

\* the step in which the preparation of the task t completes: the sources are
\* started and the session plays
Schedules(t) ==
  /\ tasks[t].pc = "decoding"
  /\ tasks'[t].pc /= "decoding"
  /\ isStitching /\ ~isStitching'

\* the sources started in this step
Started == SubSeq(sources', Len(sources) + 1, Len(sources'))

\* C9: the buffers of a session are started in the order getAllFiles()
\* returned them, the first at the clock's time t0 and each following one at
\* the start of its predecessor plus the predecessor's duration
Gapless ==
  \A t \in TaskIds :
    Schedules(t) =>
      /\ Len(Started) = Len(tasks[t].data)
      /\ \A i \in DOMAIN Started :
           /\ Started[i].ctx = tasks[t].ctx
           /\ Started[i].dur = DecodedDuration(tasks[t].data[i])
           /\ i = 1 => Started[i].when = CurrentTime(ctxs[tasks[t].ctx])
           /\ i > 1 => Started[i].when = Add(Started[i - 1].when, Started[i - 1].dur)

C9_Gapless == [][Gapless]_vars

\* a session of two buffers has been started, the second after the first
C9_Witness ==
  \E i \in DOMAIN sources :
    /\ i + 1 \in DOMAIN sources
    /\ sources[i].ctx = sources[i + 1].ctx
    /\ sources[i + 1].last
    /\ sources[i + 1].when > sources[i].when
    /\ isPlaying

\* the sum of a sequence of numbers, as a real number
RECURSIVE Sum(_)
Sum(s) == IF s = <<>> THEN 0 ELSE Sum(Front(s)) + Last(s)

\* the time at which the last of the sources ss ends, as the scheduling loop
\* computes it; the clock's time when there is none
EndOfLast(ss, t0) == IF ss = <<>> THEN t0 ELSE Add(Last(ss).when, Last(ss).dur)

\* C10 as claimed: the duration recorded for a session, observable and used
\* by the polling loop, is the sum of the durations of the decoded buffers, and
\* the last buffer ends exactly at t0 plus that duration
DurationIsSumExactly ==
  \A t \in TaskIds :
    Schedules(t) =>
      /\ duration' = Sum(Durations(t))
      /\ timer'.duration = Sum(Durations(t))
      /\ EndOfLast(Started, timer'.startTime) = Add(timer'.startTime, duration')

C10_Claimed == [][DurationIsSumExactly]_vars

\* no addition of the session rounds: the sums are representable
NoRounding(t0, durs) ==
  \A i \in DOMAIN durs :
    LET partial == Sum(SubSeq(durs, 1, i)) IN
    Fl(partial) = partial /\ Fl(t0 + partial) = t0 + partial

\* C10 amended: the duration recorded for a session, observable and used by
\* the polling loop, is the sum of the durations of the decoded buffers, and
\* the last buffer ends at t0 plus that duration, both up to the rounding of
\* the floating-point additions: exactly when no addition rounds, and within
\* one unit in the last place per buffer otherwise
DurationIsSumRounded ==
  \A t \in TaskIds :
    Schedules(t) =>
      LET end == EndOfLast(Started, timer'.startTime)
          line == timer'.startTime + duration'
          sum == Sum(Durations(t))
      IN
      /\ timer'.duration = duration'
      /\ timer'.startTime = CurrentTime(ctxs[tasks[t].ctx])
      /\ NoRounding(timer'.startTime, Durations(t)) => duration' = sum /\ end = line
      /\ Abs(duration' - sum) <= Len(Started) * Ulp(sum)
      /\ Abs(end - line) <= Len(Started) * Ulp(IF end > line THEN end ELSE line)

C10_Amended == [][DurationIsSumRounded]_vars

\* a session of two buffers plays whose last buffer ends off t0 + duration
C10_Witness ==
  /\ isPlaying
  /\ Prepared
  /\ duration = timer.duration
  /\ duration > 0
  /\ \E i \in DOMAIN sources :
       /\ sources[i].ctx = audioCtxRef /\ sources[i].last /\ i > 1
       /\ Add(sources[i].when, sources[i].dur) /= timer.startTime + duration

\* a session plays on the current context and its clock has passed the end of
\* the timeline, after n user actions and catalog changes, no reload pending
PlayedThrough(n) ==
  /\ nClicks = n
  /\ isPlaying
  /\ Prepared
  /\ \A l \in LoadIds : loads[l].pc = "idle"
  /\ ctxs[audioCtxRef].time > timer.startTime + timer.duration
  /\ \A i \in DOMAIN sources : sources[i].ctx = audioCtxRef => ctxs[audioCtxRef].time >= EndOf(sources[i])

\* C8 as claimed: once the clock of a playing session has passed t0 plus the
\* total duration, and unless the user acts or the catalog changes, the
\* scheduler is eventually not playing with the current time back at 0
C8_Claimed ==
  \A n \in 0..MaxClicks :
    PlayedThrough(n) ~> (nClicks /= n \/ (~isPlaying /\ currTime = 0))

\* the handler of the ended event of source i runs in this step
EndedRuns(i) ==
  /\ i \in DOMAIN sources
  /\ Len(sources') = Len(sources)
  /\ ~sources[i].fired /\ sources'[i].fired

\* a step of the natural end: the ended handler, or the stop of the polling
\* loop, runs or goes on
NaturalEndStep ==
  \/ \E i \in DOMAIN sources : EndedRuns(i)
  \/ \E t \in TaskIds : tasks[t].kind \in {"ended", "tick"} /\ tasks'[t] /= tasks[t]

\* C8 amended: once the clock of a playing session has passed t0 plus the
\* total duration, and unless the user acts or the catalog changes, the
\* scheduler is eventually not playing; the ended handler of the last buffer
\* stops the playback; the current time is not reset by the natural end: it
\* keeps the last elapsed time the polling loop published, at most the duration
NaturalEndStops ==
  \A n \in 0..MaxClicks : PlayedThrough(n) ~> (nClicks /= n \/ ~isPlaying)

NaturalEndKeepsTime ==
  /\ (\E i \in DOMAIN sources : EndedRuns(i)) => ~isPlaying'
  /\ NaturalEndStep => currTime' = currTime

C8_Amended ==
  /\ NaturalEndStops
  /\ [][NaturalEndKeepsTime]_vars
  /\ [](currTime >= 0 /\ currTime <= duration)

\* a session has played to its end and the handler of its last source has
\* closed the clock: not playing, the current time where the polling left it
C8_Witness ==
  /\ ~isPlaying
  /\ Prepared
  /\ ctxs[audioCtxRef].state = "closed"
  /\ \E i \in DOMAIN sources : sources[i].ctx = audioCtxRef /\ sources[i].fired
  /\ \A t \in TaskIds : tasks[t].pc = "idle"
  /\ currTime > 0

---------------------------------------------------------------------------
(* Properties of the scheduler under catalog changes, of end() and of the   *)
(* volume                                                                   *)

\* an end() awaits the close of the clock
Ending == \E t \in TaskIds : tasks[t].pc = "closing"

\* a session is active: prepared on the current context and playing, paused
\* or played to its end, with no end() under way
SessionActive == Prepared /\ PlaybackState \in {"playing", "paused", "ended"} /\ ~Ending

\* the number of buffers of the timeline built on the current context
TimelineLen == Cardinality({ i \in DOMAIN sources : sources[i].ctx = audioCtxRef })

\* end() is invoked in this step: it awaits the close of the clock, or runs
\* through and leaves the scheduler idle with the elapsed time 0
EndInvoked ==
  \/ \E t \in TaskIds : tasks[t].kind /= "effect" /\ tasks'[t].kind = "effect"
  \/ audioCtxRef' /= audioCtxRef /\ PlaybackState' = "idle" /\ currTime' = 0

\* C11 as claimed: whenever the entry count of the catalog changes while a
\* session is active, to a count that differs from the built timeline's, end()
\* is invoked and resets the session to idle with the elapsed time 0
CatalogChangeEnds ==
  (Len(folders') /= Len(folders) /\ SessionActive /\ Len(folders') /= TimelineLen)
    => EndInvoked

C11_Claimed == [][CatalogChangeEnds]_vars

\* end() completes in this step: the scheduler holds another audio clock
EndCompletes == audioCtxRef /= 0 /\ audioCtxRef' /= audioCtxRef

\* C12 as claimed: when end() has completed the previous audio clock is
\* closed, the scheduler holds a fresh clock that is not closed, the duration,
\* the elapsed time, the start time and the tracked entry count are 0, the
\* scheduler is not playing and no polling tick is pending
EndResetsAll ==
  EndCompletes =>
    /\ ctxs'[audioCtxRef].state = "closed"
    /\ ctxs'[audioCtxRef'].state /= "closed"
    /\ duration' = 0 /\ currTime' = 0
    /\ timer'.duration = 0 /\ timer'.startTime = 0 /\ timer'.filesLen = 0
    /\ ~isPlaying'
    /\ rafPending' = 0

C12_Claimed == [][EndResetsAll]_vars

\* C13: setVolume(v), v in 0..100, changes only the stored volume and the gain
\* of the existing gain stage, which becomes v/100: the playback state, the
\* timeline, t0, the elapsed time and the polling loop are left alone; a
\* second call with the same v changes nothing; with no gain stage only the
\* stored volume changes, and the gain stage of the next session starts at
\* the stored volume
VolumeOnly ==
  /\ HandleVolumeChange =>
       /\ timer'.volume \in 0..100
       /\ timer' = [timer EXCEPT !.volume = timer'.volume]
       /\ gainNodeRef'.ctx = gainNodeRef.ctx
       /\ gainNodeRef.ctx /= 0 => gainNodeRef'.gain = timer'.volume
       /\ gainNodeRef.ctx = 0 => gainNodeRef' = gainNodeRef
       /\ PlaybackState' = PlaybackState
       /\ UNCHANGED <<ctxs, audioCtxRef, animationRef, rafPending, isPlaying, currTime,
                      duration, isStitching, sources, tasks>>
       /\ (timer.volume = timer'.volume /\ gainNodeRef.gain = timer'.volume)
            => (timer' = timer /\ gainNodeRef' = gainNodeRef)
  /\ \A t \in TaskIds :
       Schedules(t) => gainNodeRef' = [ctx |-> audioCtxRef, gain |-> timer.volume]

C13_VolumeOnly == [][VolumeOnly]_vars

\* a session plays at a volume the slider was moved to
C13_Witness ==
  /\ isPlaying
  /\ Prepared
  /\ sources /= <<>>
  /\ timer.volume = 30
  /\ gainNodeRef.gain = 30


\* the audio clocks that are not closed
OpenClocks == { id \in DOMAIN ctxs : ctxs[id].state /= "closed" }

\* every audio clock is the scheduler's current clock or has been closed
OneOpenClock == \A id \in OpenClocks : id = audioCtxRef

\* the clocks that are not closed and have buffers scheduled on them
SessionClocks == { id \in OpenClocks : \E i \in DOMAIN sources : sources[i].ctx = id }

OneSession == Cardinality(SessionClocks) <= 1

\* the current session: what the scheduler shows and its clock
CurrentSession == <<isPlaying, animationRef, rafPending, ctxs[audioCtxRef]>>

\* a step of the completion callback of a source whose session is no longer
\* the current one: the handler runs, or goes on after an await
StaleCallbackStep ==
  \/ \E i \in DOMAIN sources : EndedRuns(i) /\ sources[i].ctx /= audioCtxRef
  \/ \E t \in TaskIds :
       tasks[t].kind = "ended" /\ tasks[t].ctx /= audioCtxRef /\ tasks'[t] /= tasks[t]

StaleCallbackHarmless == StaleCallbackStep => CurrentSession' = CurrentSession

\* C22 as claimed: at most one session has buffers scheduled on a clock that
\* is not closed, every audio clock is the current one or closed, also when
\* play() is invoked during an end() or a preparation, and the completion
\* callback of a session that is no longer current never stops or suspends
\* the current session
C22_Claimed == []OneOpenClock /\ []OneSession /\ [][StaleCallbackHarmless]_vars

\* the preparation of the task t is in flight and end() has run for a change
\* of the catalog: it awaits the close of the clock, or has replaced the clock
Superseded(t) ==
  /\ tasks[t].kind = "play"
  /\ tasks[t].pc \in {"fetching", "decoding"}
  /\ \/ audioCtxRef /= tasks[t].ctx
     \/ \E e \in TaskIds : tasks[e].kind = "effect" /\ tasks[e].pc = "closing"

SupersededStaysSilent ==
  \A t \in TaskIds :
    (Superseded(t) /\ tasks'[t] /= tasks[t]) => sources' = sources /\ ~isPlaying'

\* while playing, the session was prepared on the current clock and the
\* tracked entry count is the number of buffers of its timeline
PlayingOnCurrent == isPlaying => Prepared /\ timer.filesLen = TimelineLen

\* C23 as claimed: a preparation in flight when end() runs for a change of the
\* catalog does not afterwards schedule buffers or enter playing; whenever the
\* scheduler is playing, the tracked entry count is the number of buffers of
\* the timeline and the buffers are scheduled on the current audio clock
C23_Claimed == [][SupersededStaysSilent]_vars /\ []PlayingOnCurrent

\* what a session is made of: t0, the durations, the tracked entry count and
\* the volume, the gain stage, the buffers and the clock they are scheduled on
SessionFields == <<timer, duration, gainNodeRef, sources, audioCtxRef, isStitching>>

\* play() is invoked on a paused session: it asks the clock to resume
ResumeAsked(t) ==
  tasks[t].pc = "idle" /\ tasks'[t].pc = "resuming" /\ tasks'[t].from = "paused"

\* the resume asked for on a paused session resolves, the clock still suspended
ResumeResolves(t) ==
  /\ tasks[t].pc = "resuming" /\ tasks[t].from = "paused" /\ tasks'[t] /= tasks[t]
  /\ ctxs[audioCtxRef].state = "suspended"

\* play() is invoked while playing: it asks the clock to suspend
StopAsked(t) ==
  tasks[t].pc = "idle" /\ tasks'[t].pc = "stopping" /\ tasks'[t].kind = "play"

\* the suspension asked for by play() resolves
StopResolves(t) ==
  tasks[t].pc = "stopping" /\ tasks[t].kind = "play" /\ tasks'[t] /= tasks[t]

\* the elapsed time on the current clock
Elapsed == Sub(CurrentTime(ctxs[audioCtxRef]), timer.startTime)

ResumeKeepsSession ==
  \A t \in TaskIds :
    /\ ResumeAsked(t) =>
         /\ SessionFields' = SessionFields
         /\ currTime' = currTime
         /\ ctxs'[audioCtxRef].control = "running"
         /\ ctxs'[audioCtxRef].time = ctxs[audioCtxRef].time
    /\ ResumeResolves(t) =>
         /\ SessionFields' = SessionFields
         /\ tasks'[t].pc = "idle"
         /\ isPlaying'
         /\ animationRef' = "live" /\ rafPending' = rafPending + 1
         /\ ctxs'[audioCtxRef].state = "running"
         /\ ctxs'[audioCtxRef].time = ctxs[audioCtxRef].time
         /\ currTime' = Elapsed
         /\ currTime' >= currTime

StopKeepsSession ==
  \A t \in TaskIds :
    /\ StopAsked(t) =>
         /\ SessionFields' = SessionFields
         /\ currTime' = currTime
         /\ ~isPlaying'
         /\ ctxs'[audioCtxRef].control = "suspended"
    /\ StopResolves(t) =>
         /\ SessionFields' = SessionFields
         /\ currTime' = currTime
         /\ isPlaying' = isPlaying
         /\ tasks'[t].pc = "idle"
         /\ animationRef' = "null" /\ rafPending' = 0
         /\ ctxs'[tasks[t].waits].state = "suspended"

\* a suspended clock does not advance
SuspendedClockStands ==
  \A id \in DOMAIN ctxs :
    (id \in DOMAIN ctxs' /\ ctxs[id].state = "suspended" /\ ctxs'[id].state /= "closed")
      => ctxs'[id].time = ctxs[id].time

\* C26 as claimed: play() on a paused session resumes that session: nothing
\* is fetched, decoded or scheduled, t0, the total duration, the tracked entry
\* count and the gain stage stay as they are, the polling loop is started
\* again and the elapsed time goes on from where the clock stood when it was
\* suspended; play() while playing only suspends the clock and stops the
\* polling, with the same fields unchanged
C26_Claimed == [][ResumeKeepsSession /\ StopKeepsSession /\ SuspendedClockStands]_vars

\* at most one frame request is pending
OneTickPending == rafPending <= 1

\* stopPlayback() or endPlayback() is under way: it awaits the clock
StopInProgress ==
  \E t \in TaskIds : tasks[t].pc \in {"stopping", "suspending", "closing"}

\* a frame request is pending only while playing, or while a stop is under way
TickOnlyWhilePlaying == rafPending > 0 => (isPlaying \/ StopInProgress)

\* stopPlayback() completes in the task t
StopPlaybackCompletes(t) ==
  tasks[t].pc \in {"stopping", "suspending"} /\ tasks'[t] /= tasks[t]

\* endPlayback() completes in the task t
EndPlaybackCompletes(t) ==
  /\ tasks[t].kind \in {"play", "effect"}
  /\ tasks[t].pc = "closing"
  /\ tasks'[t] /= tasks[t]

\* when stopPlayback() or endPlayback() completes, no frame request is left
NoTickAfterStop ==
  \A t \in TaskIds : (StopPlaybackCompletes(t) \/ EndPlaybackCompletes(t)) => rafPending' = 0

\* the continuation of a play() that was not superseded requests a frame
PlayContinues ==
  \E t \in TaskIds :
    /\ tasks[t].kind = "play"
    /\ tasks[t].pc \in {"resuming", "decoding"}
    /\ ~Superseded(t)
    /\ tasks'[t] /= tasks[t]

\* with no frame request pending, one appears only in a play()
TickStartsWithPlay == (rafPending = 0 /\ rafPending' > 0) => PlayContinues

\* stopPlayback() or endPlayback() with no loop active leaves the loop state
\* as it is
StopWithoutLoop ==
  \A t \in TaskIds :
    ((StopPlaybackCompletes(t) \/ EndPlaybackCompletes(t)) /\ animationRef = "null" /\ rafPending = 0)
      => (animationRef' = "null" /\ rafPending' = 0)

\* C27 as claimed: at most one polling tick is pending; one is pending only
\* while playing or while a stop is under way; when stop() or end() has
\* completed none is pending until the next play(); stop() or end() with no
\* loop active leaves the loop state as it is
C27_Claimed ==
  /\ []OneTickPending
  /\ []TickOnlyWhilePlaying
  /\ [][NoTickAfterStop /\ TickStartsWithPlay /\ StopWithoutLoop]_vars

\* the current time shown lies between 0 and the total duration shown
TimeInRange == currTime >= 0 /\ currTime <= duration

\* a frame request runs updatePlaybackTime() in this step: nothing but the
\* loop, the current time, isPlaying and the task of a stop changes
TickRuns ==
  /\ rafPending > 0
  /\ rafPending' \in {rafPending - 1, rafPending}
  /\ UNCHANGED <<audioCtxRef, gainNodeRef, timer, duration, isStitching, sources, nClicks>>
  /\ UNCHANGED <<storageVars, catalogVars>>
  /\ \A t \in TaskIds :
       tasks'[t] /= tasks[t] => (tasks[t].pc = "idle" /\ tasks'[t].kind = "tick")
  /\ DOMAIN ctxs' = DOMAIN ctxs
  /\ \A id \in DOMAIN ctxs :
       ctxs'[id].state = ctxs[id].state /\ ctxs'[id].time = ctxs[id].time

\* a tick whose elapsed time exceeds the total duration stops the playback
\* and publishes nothing
LateTickStops ==
  (TickRuns /\ Elapsed > timer.duration) =>
    /\ ~isPlaying'
    /\ currTime' = currTime
    /\ rafPending' = rafPending - 1
    /\ ctxs'[audioCtxRef].control \in {"suspended", "closed"}

\* any other tick publishes the elapsed time only when it lies between 0 and
\* the total duration, and requests the next frame
TickPublishesInRange ==
  (TickRuns /\ ~(Elapsed > timer.duration)) =>
    /\ isPlaying' = isPlaying
    /\ rafPending' = rafPending
    /\ currTime' = IF Elapsed >= 0 /\ Elapsed <= timer.duration THEN Elapsed ELSE currTime
    /\ currTime' /= currTime => (currTime' >= 0 /\ currTime' <= duration)

\* C28: the current time shown always lies between 0 and the total duration
\* shown; a polling tick whose elapsed time, the clock's time minus t0, exceeds
\* the total duration stops the playback without publishing it, and any other
\* tick publishes the elapsed time only when it lies between 0 and the total
\* duration
C28_TimeInRange == []TimeInRange /\ [][LateTickStops /\ TickPublishesInRange]_vars

\* a tick has found the elapsed time past the total duration: the playback is
\* stopped, the suspension of the clock is awaited, and the current time is
\* the one an earlier tick published
C28_Witness ==
  /\ \E t \in TaskIds : tasks[t].kind = "tick" /\ tasks[t].pc = "stopping"
  /\ ~isPlaying
  /\ Elapsed > timer.duration
  /\ currTime > 0
  /\ currTime <= duration
=============================================================================
